---- MODULE Spec2Model ----
(***************************************************************************)
(* The upload-to-transcript job pipeline: the object store gateway, the    *)
(* finalize step of the upload orchestrator, the job store and the worker  *)
(* loop with its two stage handlers.                                       *)
(***************************************************************************)
EXTENDS Integers, Sequences, FiniteSets, TLC

\* ------------------------------------------------------------- bounds
NumWorkers == 2
NumCallers == 2
MaxSweeps == 1
NumTabs == 1
NumHandlers == 2
NumMessages == 3
NumRequests == 2
NumAdminRequests == 2
NumUsers == 2

\* two uploads: the jobs of different uploads meet only in the workers' choice
Uploads == {1, 2}
Workers == 1..NumWorkers
Callers == 1..NumCallers
Tabs == 1..NumTabs
Handlers == 1..NumHandlers
Messages == 1..NumMessages
Requests == 1..NumRequests
AdminRequests == 1..NumAdminRequests
UserIds == 1..NumUsers

\* ---------------------------------------------------- program constants
\* "Failed after 3 retry attempts"
MaxRetries == 3

Providers == {"gemini", "openai"}
NoUpload == 0

\* the two runs that are compared when the provider is swapped
Runs == {"a", "b"}
Stages == {"transcode", "asr"}

VARIABLES
  objects,      \* the keys of the objects that exist in the bucket
  sessions,     \* the in-flight multipart uploads: records [Key, UploadId]
  rows,         \* rows[u]: the number of Job rows whose id is u
  job,          \* job[u]: the fields of the Job row of u (NoJob when there is none)
  stale,        \* stale[u]: the row's updatedAt is older than the timeout
  transcripts,  \* the Transcript rows, in insertion order
  provider,     \* the ASR provider configured at process start
  fpc, fjob,    \* each finalize request: its position and its jobId
  wpc, wjob, wstage, \* each worker: its position, the row it selected, the step it read
  fails,        \* history: handler failures of each job so far
  won, lost,    \* history: claims that affected one / zero rows since the job was last queued
  sweeps,       \* stale-processing requeues done so far
  sweptLive,    \* history: the job was requeued while its worker was still running
  rprov,        \* two runs of the pipeline side by side: the provider of each run,
  rjob,         \* its Job rows,
  rtrans,       \* its Transcript rows,
  rfails,       \* and the handler failures both were given, by job and stage
  urlChecks,    \* the rows of the table url_checks, in insertion order
  token,        \* extension: an authToken is in chrome.storage.local
  autoScan,     \* extension: the autoScan setting is not false
  blockWarnings, \* extension: the blockWarnings setting is true
  urlCache,     \* background script: the Map urlCache, by base domain
  processingTabs, \* background script: the Set processingTabs
  redirectedTabs, \* background script: the Map redirectedTabs, tab -> url
  tabWarnings,  \* background script: the Map tabWarnings, tab -> warning info
  tabUrl,       \* the page each tab shows or is loading
  pending,      \* a 'loading' event of the tab is waiting to be delivered
  via,          \* what started the tab's last navigation
  scan,         \* the script of the scanning page the tab shows
  hpc, htab, hurl, hres, hpage, hvia, \* each invocation of the onUpdated listener
  qpc, qurl, qforce, qonly, \* each check-url request: position and inputs,
  qsaw, qai, qres, qcalled, \* what its upsert saw, the AI's answer, its response
  users,        \* the table users: the role of each user id, "none" without a row
  apc, ahdr, aroute, aqueries, \* each admin listing request and its listing queries
  pendingChecks, \* background script: the Set pendingChecks, of normalized URLs
  mpc, murl, mres, \* each 'checkUrl' message: position, normalized URL, answer
  lpc,          \* checkPhishingUrlWithLangChain: position of the call
  iteration,    \* its variable iteration
  toolUsed,     \* its variable toolUsed
  messages,     \* its array messages, by kind of message
  invocations,  \* how often the call has invoked the model
  lresult       \* what the call has returned

pipelineVars == <<objects, sessions, rows, job, stale, transcripts, provider,
                  fpc, fjob, wpc, wjob, wstage, fails, won, lost, sweeps, sweptLive>>
runVars == <<rprov, rjob, rtrans, rfails>>
settingVars == <<token, autoScan, blockWarnings>>
guardVars == <<processingTabs, redirectedTabs, tabWarnings>>
tabVars == <<tabUrl, pending, via, scan>>
handlerVars == <<hpc, htab, hurl, hres, hpage, hvia>>
extVars == <<settingVars, urlCache, guardVars, tabVars, handlerVars>>
apiVars == <<qpc, qurl, qforce, qonly, qsaw, qai, qres, qcalled>>
adminVars == <<users, apc, ahdr, aroute, aqueries>>
msgVars == <<pendingChecks, mpc, murl, mres>>
langVars == <<lpc, iteration, toolUsed, messages, invocations, lresult>>
otherVars == <<runVars, urlChecks, extVars, apiVars, adminVars, msgVars, langVars>>

vars == <<pipelineVars, otherVars>>

storeVars == <<objects, sessions>>
jobVars == <<rows, job, stale>>
finalizeVars == <<fpc, fjob>>
workerVars == <<wpc, wjob, wstage>>
historyVars == <<fails, won, lost>>
sweepVars == <<sweeps, sweptLive>>

\* ---------------------------------------------------------- storage keys
\* uploads/{upload_id}/original.mp4 and the derived artifacts beside it
OriginalKey(u) == <<"uploads", u, "original.mp4">>
AudioKey(u) == <<"uploads", u, "audio.mp3">>
RawKey(u) == <<"uploads", u, "transcript.json">>
TextKey(u) == <<"uploads", u, "transcript.txt">>

IsPrefix(p, k) == Len(p) <= Len(k) /\ SubSeq(k, 1, Len(p)) = p

\* ------------------------------------------------- object store gateway
\* HeadObject sent for a key that is never the object's key: always NotFound
headObjectOtherKey(key) == FALSE

\* HeadObject resolves when the object exists and rejects (NotFound) otherwise.
headObject(key) == key \in objects

\* a lookup that never finds the in-flight upload
findUploadIdNone(key) == NoUpload

\* ListMultipartUploads with Prefix = key ...
ListedUploads(key) == {s \in sessions : IsPrefix(key, s.Key)}
\* a lookup that takes the first upload listed under the prefix
findUploadIdOfFirstListed(key) ==
  IF ListedUploads(key) # {}
  THEN (CHOOSE s \in ListedUploads(key) : TRUE).UploadId
  ELSE NoUpload

\* ... then the upload whose Key is key, if there is one.
findUploadId(key) ==
  IF \E s \in ListedUploads(key) : s.Key = key
  THEN (CHOOSE s \in ListedUploads(key) : s.Key = key).UploadId
  ELSE NoUpload

\* CompleteMultipartUpload succeeds only for an upload that is in flight; the
\* object then exists and the upload id is no longer valid.
CanComplete(key, uploadId) == [Key |-> key, UploadId |-> uploadId] \in sessions
completeMultipartUpload(key, uploadId) ==
  /\ CanComplete(key, uploadId)
  /\ objects' = objects \cup {key}
  /\ sessions' = sessions \ {[Key |-> key, UploadId |-> uploadId]}

\* a PutObject that never overwrites: every call stores under a new name
uploadJsonUnderNewKey(key) == objects \cup {Append(key, Cardinality(objects))}

\* PutObject: creates or overwrites the object under the key.
uploadJson(key) == objects \cup {key}
uploadText(key) == objects \cup {key}

\* ------------------------------------------------------------- job rows
NoJob == [state |-> "none", stage |-> "none", retryCount |-> 0, meta |-> <<>>]
\* a Job row that is queued at asr from its first moment
NewJobAtAsr == [state |-> "queued", stage |-> "asr", retryCount |-> 0, meta |-> <<>>]
NewJob == [state |-> "queued", stage |-> "transcode", retryCount |-> 0, meta |-> <<>>]

PipelineInit ==
  /\ objects = {}
  /\ sessions = {}
  /\ rows = [u \in Uploads |-> 0]
  /\ job = [u \in Uploads |-> NoJob]
  /\ stale = [u \in Uploads |-> FALSE]
  /\ transcripts = <<>>
  /\ provider = "openai"
  /\ fpc = [c \in Callers |-> "idle"]
  /\ fjob = [c \in Callers |-> NoUpload]
  /\ wpc = [w \in Workers |-> "poll"]
  /\ wjob = [w \in Workers |-> NoUpload]
  /\ wstage = [w \in Workers |-> "none"]
  /\ fails = [u \in Uploads |-> 0]
  /\ won = [u \in Uploads |-> 0]
  /\ lost = [u \in Uploads |-> 0]
  /\ sweeps = 0
  /\ sweptLive = [u \in Uploads |-> FALSE]

\* the side-by-side runs before their first event
RunStart ==
  /\ rjob = [r \in Runs |-> [u \in Uploads |-> NoJob]]
  /\ rtrans = [r \in Runs |-> <<>>]
  /\ rfails = [u \in Uploads |-> [st \in Stages |-> 0]]

NewEpoch(u) ==
  /\ won' = [won EXCEPT ![u] = 0]
  /\ lost' = [lost EXCEPT ![u] = 0]

\* ---------------------------------------------------- upload orchestrator
\* initiate: opens the multipart session of a new job; the client then sends
\* the parts straight to the bucket.
Initiate(u) ==
  /\ ~headObject(OriginalKey(u))
  /\ findUploadId(OriginalKey(u)) = NoUpload
  /\ rows[u] = 0
  /\ sessions' = sessions \cup {[Key |-> OriginalKey(u), UploadId |-> u]}
  /\ UNCHANGED <<objects, jobVars, transcripts, provider, finalizeVars,
                 workerVars, historyVars, sweepVars>>
  /\ UNCHANGED otherVars

\* CreateMultipartUpload: the upload is in flight under the key it was given.
createMultipartUpload(key, uploadId) ==
  sessions' = sessions \cup {[Key |-> key, UploadId |-> uploadId]}

\* another upload is started under a key that the key of u is a prefix of
\* (uploads/{u}/original.mp4.part); the store gives it an id of its own
LongerKey(u) == Append(OriginalKey(u), ".part")
OtherUploadId(u) == u + Cardinality(Uploads)
OtherUpload(u) ==
  /\ createMultipartUpload(LongerKey(u), OtherUploadId(u))
  /\ UNCHANGED <<objects, jobVars, transcripts, provider, finalizeVars,
                 workerVars, historyVars, sweepVars>>
  /\ UNCHANGED otherVars

\* finalize, step 1: the object exists already: success, no Job row. Otherwise
\* go on with the known session, or look it up first.
FinalizeStart(c, u, known) ==
  /\ fpc[c] = "idle"
  /\ fjob' = [fjob EXCEPT ![c] = u]
  /\ fpc' = [fpc EXCEPT ![c] =
       IF headObject(OriginalKey(u)) THEN "success"
       ELSE IF known THEN "complete" ELSE "find"]
  /\ UNCHANGED <<storeVars, jobVars, transcripts, provider, workerVars,
                 historyVars, sweepVars>>
  /\ UNCHANGED otherVars

\* finalize, step 2: recover the session; none: UploadSessionNotFound.
FinalizeFind(c) ==
  /\ fpc[c] = "find"
  /\ fpc' = [fpc EXCEPT ![c] =
       IF findUploadId(OriginalKey(fjob[c])) = NoUpload
       THEN "UploadSessionNotFound" ELSE "complete"]
  /\ UNCHANGED <<storeVars, jobVars, transcripts, provider, fjob, workerVars,
                 historyVars, sweepVars>>
  /\ UNCHANGED otherVars

\* finalize, step 3: complete the multipart upload ...
FinalizeComplete(c) ==
  /\ fpc[c] = "complete"
  /\ completeMultipartUpload(OriginalKey(fjob[c]), fjob[c])
  /\ fpc' = [fpc EXCEPT ![c] = "insert"]
  /\ UNCHANGED <<jobVars, transcripts, provider, fjob, workerVars,
                 historyVars, sweepVars>>
  /\ UNCHANGED otherVars

\* ... a storage error is surfaced to the caller, nothing is persisted (step 4)
FinalizeStorageError(c) ==
  /\ fpc[c] = "complete"
  /\ fpc' = [fpc EXCEPT ![c] = "StorageError"]
  /\ UNCHANGED <<storeVars, jobVars, transcripts, provider, fjob, workerVars,
                 historyVars, sweepVars>>
  /\ UNCHANGED otherVars

\* ... on success, create the Job row: queued, transcode, retryCount 0.
CreateJob(u) ==
  /\ rows' = [rows EXCEPT ![u] = @ + 1]
  /\ job' = [job EXCEPT ![u] = NewJob]
  /\ stale' = [stale EXCEPT ![u] = FALSE]
  /\ NewEpoch(u)

FinalizeInsert(c) ==
  /\ fpc[c] = "insert"
  /\ CreateJob(fjob[c])
  /\ fpc' = [fpc EXCEPT ![c] = "success"]
  /\ UNCHANGED <<storeVars, transcripts, provider, fjob, workerVars, fails,
                 sweepVars>>
  /\ UNCHANGED otherVars

\* the request dies between the storage call and the insert (the insert is
\* rejected, the connection drops, the server restarts): an error, no Job row.
FinalizeAbort(c) ==
  /\ fpc[c] = "insert"
  /\ fpc' = [fpc EXCEPT ![c] = "InternalError"]
  /\ UNCHANGED <<storeVars, jobVars, transcripts, provider, fjob, workerVars,
                 historyVars, sweepVars>>
  /\ UNCHANGED otherVars

FinalizeResults == {"success", "UploadSessionNotFound", "StorageError", "InternalError"}

\* the response is delivered; the client may call again.
FinalizeReturn(c) ==
  /\ fpc[c] \in FinalizeResults
  /\ fpc' = [fpc EXCEPT ![c] = "idle"]
  /\ fjob' = [fjob EXCEPT ![c] = NoUpload]
  /\ UNCHANGED <<storeVars, jobVars, transcripts, provider, workerVars,
                 historyVars, sweepVars>>
  /\ UNCHANGED otherVars

Finalize(c) ==
  \/ \E u \in Uploads, known \in BOOLEAN : FinalizeStart(c, u, known)
  \/ FinalizeFind(c)
  \/ FinalizeComplete(c)
  \/ FinalizeStorageError(c)
  \/ FinalizeInsert(c)
  \/ FinalizeAbort(c)
  \/ FinalizeReturn(c)

\* one upload from initiate to a finalize that runs through undisturbed: the
\* object is complete, its session is gone, the Job row is created.
Upload(u) ==
  /\ ~headObject(OriginalKey(u))
  /\ rows[u] = 0
  /\ objects' = objects \cup {OriginalKey(u)}
  /\ CreateJob(u)
  /\ UNCHANGED <<sessions, transcripts, provider, finalizeVars, workerVars,
                 fails, sweepVars>>
  /\ UNCHANGED otherVars

\* ---------------------------------------------------------------- job store
\* every write of a row also sets its updatedAt
SetJob(u, j) ==
  /\ job' = [job EXCEPT ![u] = j]
  /\ stale' = [stale EXCEPT ![u] = FALSE]
  /\ rows' = rows

\* a poll query that only leaves out the rows being processed
EligibleNotProcessing(u) == rows[u] > 0 /\ job[u].state # "processing"

\* the poll query: jobs with state = 'queued'
Eligible(u) == rows[u] > 0 /\ job[u].state = "queued"

\* the update without its condition on the state: WHERE id = u
ClaimAffectedAnyState(u) == IF job[u].state # "none" THEN 1 ELSE 0

\* the conditional update of the claim: UPDATE ... SET state = processing
\* WHERE id = u AND state = 'queued'; its result is the number of rows affected.
ClaimAffected(u) == IF job[u].state = "queued" THEN 1 ELSE 0

\* the policy with the budget checked after the increment: failed at the
\* third failure
RetryOrFailEarly(j) ==
  IF j.retryCount + 1 < MaxRetries
  THEN [j EXCEPT !.state = "queued", !.retryCount = @ + 1]
  ELSE [j EXCEPT !.state = "failed", !.retryCount = @ + 1]

\* the policy with a retry that starts the pipeline over
RetryOrFailFromStart(j) ==
  IF j.retryCount < MaxRetries
  THEN [j EXCEPT !.state = "queued", !.stage = "transcode", !.retryCount = @ + 1]
  ELSE [j EXCEPT !.state = "failed"]

\* the policy with a failure counted twice
RetryOrFailDoubleCount(j) ==
  IF j.retryCount < MaxRetries
  THEN [j EXCEPT !.state = "queued", !.retryCount = @ + 2]
  ELSE [j EXCEPT !.state = "failed"]

\* the retry policy applied on a handler failure
RetryOrFail(j) ==
  IF j.retryCount < MaxRetries
  THEN [j EXCEPT !.state = "queued", !.retryCount = @ + 1]
  ELSE [j EXCEPT !.state = "failed"]

\* the failure is not caught: it ends the loop
AfterFailureUncaught == "stopped"

\* where the loop goes after it has caught a handler failure
AfterFailure == "poll"

\* the row after the claim, after the transcode handler and after the asr handler
Claimed(j) == [j EXCEPT !.state = "processing"]
AfterTranscodeWithoutKey(j, u) == [j EXCEPT !.state = "queued", !.stage = "asr"]
AfterTranscode(j, u) == [j EXCEPT !.state = "queued", !.stage = "asr", !.meta = AudioKey(u)]
AfterAsr(j) == [j EXCEPT !.state = "done", !.stage = "asr_completed"]

\* worker w is running a handler on the row of u
Holds(w, u) == wpc[w] \in {"work", "inserted"} /\ wjob[w] = u
Holders(u) == {w \in Workers : Holds(w, u)}

\* ------------------------------------------------------------- worker loop
\* 1. poll: select one queued row and read its next step
Poll(w, u) ==
  /\ wpc[w] = "poll"
  /\ Eligible(u)
  /\ wpc' = [wpc EXCEPT ![w] = "claim"]
  /\ wjob' = [wjob EXCEPT ![w] = u]
  /\ wstage' = [wstage EXCEPT ![w] = job[u].stage]
  /\ UNCHANGED <<storeVars, jobVars, transcripts, provider, finalizeVars,
                 historyVars, sweepVars>>
  /\ UNCHANGED otherVars

Release(w) ==
  /\ wjob' = [wjob EXCEPT ![w] = NoUpload]
  /\ wstage' = [wstage EXCEPT ![w] = "none"]

\* 3. claim: one row affected: the job is this worker's; zero: move on
Claim(w) ==
  /\ wpc[w] = "claim"
  /\ IF ClaimAffected(wjob[w]) = 1
     THEN /\ SetJob(wjob[w], Claimed(job[wjob[w]]))
          /\ wpc' = [wpc EXCEPT ![w] = "work"]
          /\ won' = [won EXCEPT ![wjob[w]] = @ + 1]
          /\ UNCHANGED <<wjob, wstage, lost>>
     ELSE /\ wpc' = [wpc EXCEPT ![w] = "poll"]
          /\ Release(w)
          /\ lost' = [lost EXCEPT ![wjob[w]] = @ + 1]
          /\ UNCHANGED <<jobVars, won>>
  /\ UNCHANGED <<storeVars, transcripts, provider, finalizeVars, fails,
                 sweepVars>>
  /\ UNCHANGED otherVars

\* 4. transcode: download the MP4, transcode to MP3, upload it, update the job
\* to next_step = 'asr'
TranscodeSuccess(w) ==
  /\ wpc[w] = "work"
  /\ wstage[w] = "transcode"
  /\ headObject(OriginalKey(wjob[w]))
  /\ objects' = uploadJson(AudioKey(wjob[w]))
  /\ SetJob(wjob[w], AfterTranscode(job[wjob[w]], wjob[w]))
  /\ NewEpoch(wjob[w])
  /\ wpc' = [wpc EXCEPT ![w] = "poll"]
  /\ Release(w)
  /\ UNCHANGED <<sessions, transcripts, provider, finalizeVars, fails,
                 sweepVars>>
  /\ UNCHANGED otherVars

\* 4. asr: download the MP3, call the provider, save JSON and text, insert the
\* Transcript row ...
ModelName(p) == IF p = "gemini" THEN "gemini-2.5-pro" ELSE "whisper-1"

\* a row whose artifact keys are named after the provider
TranscriptRowKeyedByProvider(p, u) ==
  [jobId |-> u, provider |-> p, rawKey |-> <<"uploads", u, p>>,
   textKey |-> TextKey(u), meta |-> ModelName(p)]

TranscriptRowFor(p, u) ==
  [jobId |-> u, provider |-> p, rawKey |-> RawKey(u), textKey |-> TextKey(u),
   meta |-> ModelName(p)]
TranscriptRow(u) == TranscriptRowFor(provider, u)

AsrSuccess(w) ==
  /\ wpc[w] = "work"
  /\ wstage[w] = "asr"
  /\ headObject(AudioKey(wjob[w]))
  /\ objects' = uploadJson(RawKey(wjob[w])) \cup uploadText(TextKey(wjob[w]))
  /\ transcripts' = Append(transcripts, TranscriptRow(wjob[w]))
  /\ wpc' = [wpc EXCEPT ![w] = "inserted"]
  /\ UNCHANGED <<sessions, jobVars, provider, finalizeVars, wjob, wstage,
                 historyVars, sweepVars>>
  /\ UNCHANGED otherVars

\* a handler that has uploaded a derived artifact and not yet updated the job:
\* the attempt may still fail or die, and the artifact stays where it is
StageKeys(stage, u) ==
  IF stage = "transcode" THEN {AudioKey(u)} ELSE {RawKey(u), TextKey(u)}

SaveArtifact(w) ==
  /\ wpc[w] = "work"
  /\ \/ /\ wstage[w] = "transcode"
        /\ headObject(OriginalKey(wjob[w]))
        /\ objects' = uploadJson(AudioKey(wjob[w]))
     \/ /\ wstage[w] = "asr"
        /\ headObject(AudioKey(wjob[w]))
        /\ objects' = uploadJson(RawKey(wjob[w]))
  /\ UNCHANGED <<sessions, jobVars, transcripts, provider, finalizeVars,
                 workerVars, historyVars, sweepVars>>
  /\ UNCHANGED otherVars

\* ... and update the job to state = 'done'
MarkDone(w) ==
  /\ wpc[w] = "inserted"
  /\ SetJob(wjob[w], AfterAsr(job[wjob[w]]))
  /\ wpc' = [wpc EXCEPT ![w] = "poll"]
  /\ Release(w)
  /\ UNCHANGED <<storeVars, transcripts, provider, finalizeVars, historyVars,
                 sweepVars>>
  /\ UNCHANGED otherVars

\* a storage or provider error in the handler: caught at the handler boundary
\* and turned into the retry-or-fail transition
HandlerFail(w) ==
  /\ wpc[w] = "work"
  /\ SetJob(wjob[w], RetryOrFail(job[wjob[w]]))
  /\ fails' = [fails EXCEPT ![wjob[w]] = @ + 1]
  /\ IF RetryOrFail(job[wjob[w]]).state = "queued"
     THEN NewEpoch(wjob[w]) ELSE UNCHANGED <<won, lost>>
  /\ wpc' = [wpc EXCEPT ![w] = AfterFailure]
  /\ Release(w)
  /\ UNCHANGED <<storeVars, transcripts, provider, finalizeVars, sweepVars>>
  /\ UNCHANGED otherVars

\* the worker process dies mid-stage; its job stays as it is
Crash(w) ==
  /\ wpc[w] \in {"claim", "work", "inserted"}
  /\ wpc' = [wpc EXCEPT ![w] = "crashed"]
  /\ UNCHANGED <<storeVars, jobVars, transcripts, provider, finalizeVars,
                 wjob, wstage, historyVars, sweepVars>>
  /\ UNCHANGED otherVars

WorkerStep(w) ==
  \/ \E u \in Uploads : Poll(w, u)
  \/ Claim(w)
  \/ TranscodeSuccess(w)
  \/ AsrSuccess(w)
  \/ SaveArtifact(w)
  \/ MarkDone(w)
  \/ HandlerFail(w)

\* --------------------------------------------- stale-processing requeue
\* the timeout passes with no write to the row
Timeout(u) ==
  /\ job[u].state = "processing"
  /\ ~stale[u]
  /\ stale' = [stale EXCEPT ![u] = TRUE]
  /\ UNCHANGED <<storeVars, rows, job, transcripts, provider, finalizeVars,
                 workerVars, historyVars, sweepVars>>
  /\ UNCHANGED otherVars

\* the sweep: a processing job whose updatedAt is older than the timeout
\* goes back to queued
Sweep(u) ==
  /\ sweeps < MaxSweeps
  /\ job[u].state = "processing"
  /\ stale[u]
  /\ SetJob(u, [job[u] EXCEPT !.state = "queued"])
  /\ NewEpoch(u)
  /\ sweeps' = sweeps + 1
  /\ sweptLive' = [sweptLive EXCEPT ![u] = @ \/ Holders(u) # {}]
  /\ UNCHANGED <<storeVars, transcripts, provider, finalizeVars, workerVars,
                 fails>>
  /\ UNCHANGED otherVars

\* ------------------------------------------- two runs, one event sequence
\* The same sequence of events (job created, job claimed, handler success,
\* handler failure) is given to two runs of the pipeline that differ in the
\* configured provider only. Each run answers an event as the worker does.
RunEvents == {"create", "claim", "success", "failure"}

Applies(j, ev) ==
  CASE ev = "create" -> j.state = "none"
    [] ev = "claim" -> j.state = "queued"
    [] OTHER -> j.state = "processing"

RunJob(j, u, ev) ==
  IF ~Applies(j, ev) THEN j
  ELSE CASE ev = "create" -> NewJob
         [] ev = "claim" -> Claimed(j)
         [] ev = "success" ->
              IF j.stage = "transcode" THEN AfterTranscode(j, u) ELSE AfterAsr(j)
         [] ev = "failure" -> RetryOrFail(j)

RunRows(p, j, u, ev) ==
  IF Applies(j, ev) /\ ev = "success" /\ j.stage = "asr"
  THEN <<TranscriptRowFor(p, u)>> ELSE <<>>

RunEvent(u, ev) ==
  /\ Applies(rjob["a"][u], ev)
  /\ rjob' = [r \in Runs |-> [rjob[r] EXCEPT ![u] = RunJob(rjob[r][u], u, ev)]]
  /\ rtrans' = [r \in Runs |-> rtrans[r] \o RunRows(rprov[r], rjob[r][u], u, ev)]
  /\ rfails' = IF ev = "failure"
               THEN [rfails EXCEPT ![u][rjob["a"][u].stage] = @ + 1]
               ELSE rfails
  /\ UNCHANGED <<pipelineVars, langVars, msgVars, rprov, urlChecks, extVars, apiVars, adminVars>>

\* ============================================================ URL checks
\* ------------------------------------------------------------------ URLs
\* A URL is its scheme, the labels of its host as written, its path and, for
\* a page of the extension, the URL given in its url parameter.
Url(scheme, host, path) == [scheme |-> scheme, host |-> host, path |-> path, query |-> <<>>]
EvilLogin == Url("https", <<"WWW", "Evil", "test">>, "login")
EvilBlocked == Url("https", <<"evil", "test">>, "blocked.html")
NewTab == Url("chrome", <<"newtab">>, "")
UserUrls == {EvilLogin, EvilBlocked}
\* a page of another site
ShopCart == Url("https", <<"shop", "test">>, "cart")
TwoSites == {EvilLogin, ShopCart}

\* chrome.runtime.getURL of one of the extension's pages, with its url parameter
getExtensionUrl(page, url) ==
  [scheme |-> "chrome-extension", host |-> <<"extension-id">>, path |-> page,
   query |-> <<url>>]

toLowerCase(label) ==
  CASE label = "WWW" -> "www"
    [] label = "Evil" -> "evil"
    [] OTHER -> label

\* a base domain that keeps the host as it was written
getBaseDomainAsWritten(url) == Url(url.scheme, url.host, "")

\* protocol + '//' + the lower-case hostname without a leading 'www.'
getBaseDomain(url) ==
  LET hostname == [i \in 1..Len(url.host) |-> toLowerCase(url.host[i])]
      domain == IF Len(hostname) > 1 /\ hostname[1] = "www" THEN Tail(hostname)
                ELSE hostname
  IN Url(url.scheme, domain, "")

\* the server's normalizeUrl: lower-case hostname, no trailing slash in the
\* path; a URL without a path is written with the path '/'
normalizeUrl(url) ==
  [url EXCEPT !.host = [i \in 1..Len(url.host) |-> toLowerCase(url.host[i])],
              !.path = IF url.path = "" THEN "/" ELSE url.path]

BaseDomains == {getBaseDomain(u) : u \in UserUrls \cup TwoSites}

\* the URLs content scripts send with 'checkUrl': the page's URL, the same
\* page reached through a tracked link, the page's base domain
EvilLoginTracked ==
  [scheme |-> "https", host |-> <<"www", "evil", "test">>, path |-> "login/",
   query |-> <<"utm_source">>]
MessageUrls == {EvilLogin, EvilLoginTracked, getBaseDomain(EvilLogin)}

\* the background script's normalizeUrl: no trailing slash in the path,
\* lower-case hostname, no tracking parameters; URL.toString() writes an empty
\* path as '/'
trackingParams ==
  {"utm_source", "utm_medium", "utm_campaign", "utm_term", "utm_content", "ref", "fbclid",
   "gclid"}
WithoutTrailingSlash(path) == IF path = "login/" THEN "login" ELSE path
IsNoTrackingParam(param) == param \notin trackingParams
backgroundNormalizeUrl(url) ==
  [scheme |-> url.scheme,
   host |-> [i \in 1..Len(url.host) |-> toLowerCase(url.host[i])],
   path |-> IF WithoutTrailingSlash(url.path) = "" THEN "/"
            ELSE WithoutTrailingSlash(url.path),
   query |-> SelectSeq(url.query, IsNoTrackingParam)]
NormalizedUrls == {backgroundNormalizeUrl(u) : u \in MessageUrls}
\* the keys of urlCache
CacheKeys == BaseDomains \cup NormalizedUrls

\* url.startsWith('chrome-extension://') || 'chrome://' || 'moz-extension://'
IsInternal(url) == url.scheme \in {"chrome-extension", "chrome", "moz-extension"}
IsWeb(url) == url.scheme \in {"http", "https"}

\* url.includes(page): the page's name is in the path or in the query
Includes(url, page) ==
  url.path = page \/ (url.query # <<>> /\ url.query[1].path = page)
OwnPages == {"scanning.html", "blocked.html", "warning.html"}
IsOwnPage(url) == \E page \in OwnPages : Includes(url, page)

\* --------------------------------------------------------------- verdicts
Verdict(p, w, e) == [isPhishing |-> p, hasWarning |-> w, error |-> e]
Phishing == Verdict(TRUE, FALSE, FALSE)
Warning == Verdict(FALSE, TRUE, FALSE)
Safe == Verdict(FALSE, FALSE, FALSE)
\* the result the clients make up when the check fails: fail open
FailOpen == Verdict(FALSE, FALSE, TRUE)
AiVerdicts == {Phishing, Warning, Safe}
\* what checkPhishingUrlWithLangChain returns when the model call fails or
\* gives no final answer: isPhishing false with a reason that says so
UnableToVerify == Verdict(FALSE, FALSE, TRUE)
AiResults == AiVerdicts \cup {UnableToVerify}

\* ------------------------------------------------------ table url_checks
\* a table without the unique index on url
UniqueIndexMissing(table, url) == TRUE

\* CREATE UNIQUE INDEX url_checks_url_key: an insert of a url that has a row
\* is rejected
url_checks_url_key(table, url) == \A i \in 1..Len(table) : table[i].url # url

RowsOf(table, url) == SelectSeq(table, LAMBDA r : r.url = url)
\* prisma.urlCheck.findUnique({where: {url}})
findUnique(table, url) == IF RowsOf(table, url) = <<>> THEN <<>> ELSE <<Head(RowsOf(table, url))>>
UrlCheckRow(url, v) ==
  [url |-> url, isPhishing |-> v.isPhishing, hasWarning |-> v.hasWarning]
\* an update that never takes a phishing verdict back
UpdateRowKeepPhishing(table, url, v) ==
  [i \in 1..Len(table) |->
     IF table[i].url = url /\ ~table[i].isPhishing THEN UrlCheckRow(url, v)
     ELSE table[i]]
\* prisma.urlCheck.upsert, its two branches
UpdateRow(table, url, v) ==
  [i \in 1..Len(table) |->
     IF table[i].url = url THEN UrlCheckRow(url, v) ELSE table[i]]
CreateRow(table, url, v) == Append(table, UrlCheckRow(url, v))
upsert(table, url, v) ==
  IF findUnique(table, url) # <<>> THEN UpdateRow(table, url, v)
  ELSE CreateRow(table, url, v)

\* the response body built from a stored row
Response(status, p, w, cached, notFound, error) ==
  [status |-> status, isPhishing |-> p, hasWarning |-> w, cached |-> cached,
   notFound |-> notFound, error |-> error]
CachedResponse(row) == Response(200, row.isPhishing, row.hasWarning, TRUE, FALSE, FALSE)
NotFoundResponse == Response(200, FALSE, FALSE, FALSE, TRUE, FALSE)
FreshResponse(v) == Response(200, v.isPhishing, v.hasWarning, FALSE, FALSE, FALSE)
\* a catch block that answers with an error status
InternalServerError == Response(500, FALSE, FALSE, FALSE, FALSE, TRUE)
ErrorResponse == Response(200, FALSE, FALSE, FALSE, FALSE, TRUE)
UnauthorizedResponse == Response(401, FALSE, FALSE, FALSE, FALSE, TRUE)

\* POST /api/check-url run without interruption, as the extension sees it:
\* the response and the table afterwards
ServedKey(url) == normalizeUrl(getBaseDomain(url))
CheckUrlResponse(table, url, forceRefresh, checkOnly, ai) ==
  IF ~forceRefresh /\ findUnique(table, ServedKey(url)) # <<>>
  THEN CachedResponse(findUnique(table, ServedKey(url))[1])
  ELSE IF ~forceRefresh /\ checkOnly THEN NotFoundResponse
  ELSE FreshResponse(ai)
CheckUrlTable(table, url, forceRefresh, checkOnly, ai) ==
  IF CheckUrlResponse(table, url, forceRefresh, checkOnly, ai).cached
     \/ CheckUrlResponse(table, url, forceRefresh, checkOnly, ai).notFound
  THEN table
  ELSE upsert(table, ServedKey(url), ai)

\* ---------------------------------------------------- requireAuth / requireAdmin
\* An Authorization header is absent, or carries a token that verifies or not
\* and names a user id.
Bearer(signed, userId) == <<[signed |-> signed, userId |-> userId]>>
NoHeader == <<>>
Headers == {NoHeader, Bearer(FALSE, 1), Bearer(TRUE, 1), Bearer(TRUE, 2)}

\* extractTokenFromHeader and verifyToken: the payload of a token that verifies
extractTokenFromHeader(header) == header
verifyToken(tok) == IF tok[1].signed THEN <<tok[1].userId>> ELSE <<>>

\* the outcome of the middleware: a status and, with 200, the user
AuthError(status) == [status |-> status, userId |-> 0, role |-> "none"]
AuthUser(userId, role) == [status |-> 200, userId |-> userId, role |-> role]

requireAuth(header) ==
  IF extractTokenFromHeader(header) = <<>> THEN AuthError(401)
  ELSE IF verifyToken(extractTokenFromHeader(header)) = <<>> THEN AuthError(401)
  ELSE IF users[verifyToken(extractTokenFromHeader(header))[1]] = "none"
  THEN AuthError(401)
  ELSE AuthUser(verifyToken(extractTokenFromHeader(header))[1],
                users[verifyToken(extractTokenFromHeader(header))[1]])

\* a middleware that asks for a valid token only
requireAdminAnyRole(header) == requireAuth(header)

requireAdmin(header) ==
  IF requireAuth(header).status # 200 THEN requireAuth(header)
  ELSE IF requireAuth(header).role # "ADMIN" THEN AuthError(403)
  ELSE requireAuth(header)

\* ------------------------------------------------------ POST /api/check-url
\* the URLs sent to the route: two spellings of one site
RequestUrls == UserUrls

ApiIdle ==
  /\ qpc = [q \in Requests |-> "idle"]
  /\ qurl = [q \in Requests |-> NewTab]
  /\ qforce = [q \in Requests |-> FALSE]
  /\ qonly = [q \in Requests |-> FALSE]
  /\ qsaw = [q \in Requests |-> FALSE]
  /\ qai = [q \in Requests |-> Safe]
  /\ qres = [q \in Requests |-> NotFoundResponse]
  /\ qcalled = [q \in Requests |-> FALSE]

Respond(q, response) ==
  /\ qpc' = [qpc EXCEPT ![q] = "done"]
  /\ qres' = [qres EXCEPT ![q] = response]

\* requireAuth, the body, then the cache lookup unless forceRefresh
Receive(q, header, url, forceRefresh, checkOnly) ==
  /\ qpc[q] = "idle"
  /\ \A q2 \in Requests : q2 < q => qpc[q2] # "idle"
  /\ qurl' = [qurl EXCEPT ![q] = url]
  /\ qforce' = [qforce EXCEPT ![q] = forceRefresh]
  /\ qonly' = [qonly EXCEPT ![q] = checkOnly]
  /\ IF requireAuth(header).status # 200
     THEN Respond(q, UnauthorizedResponse)
     ELSE /\ qpc' = [qpc EXCEPT ![q] = IF forceRefresh THEN "ai" ELSE "lookup"]
          /\ qres' = qres
  /\ UNCHANGED <<pipelineVars, langVars, msgVars, runVars, urlChecks, extVars, adminVars, qsaw,
                 qai, qcalled>>

\* findUnique: a row: the cached response; none: notFound for checkOnly,
\* otherwise the AI is asked
Lookup(q) ==
  /\ qpc[q] = "lookup"
  /\ IF findUnique(urlChecks, ServedKey(qurl[q])) # <<>>
     THEN Respond(q, CachedResponse(findUnique(urlChecks, ServedKey(qurl[q]))[1]))
     ELSE IF qonly[q] THEN Respond(q, NotFoundResponse)
     ELSE qpc' = [qpc EXCEPT ![q] = "ai"] /\ qres' = qres
  /\ UNCHANGED <<pipelineVars, langVars, msgVars, runVars, urlChecks, extVars, adminVars, qurl,
                 qforce, qonly, qsaw, qai, qcalled>>

\* requireAuth's user lookup or request.json() throws: the catch block
\* answers, fail open
ReceiveError(q, url, forceRefresh, checkOnly) ==
  /\ qpc[q] = "idle"
  /\ \A q2 \in Requests : q2 < q => qpc[q2] # "idle"
  /\ qurl' = [qurl EXCEPT ![q] = url]
  /\ qforce' = [qforce EXCEPT ![q] = forceRefresh]
  /\ qonly' = [qonly EXCEPT ![q] = checkOnly]
  /\ Respond(q, ErrorResponse)
  /\ UNCHANGED <<pipelineVars, langVars, msgVars, runVars, urlChecks, extVars, adminVars, qsaw,
                 qai, qcalled>>

\* findUnique throws: the catch block
LookupError(q) ==
  /\ qpc[q] = "lookup"
  /\ Respond(q, ErrorResponse)
  /\ UNCHANGED <<pipelineVars, langVars, msgVars, runVars, urlChecks, extVars, adminVars, qurl,
                 qforce, qonly, qsaw, qai, qcalled>>

\* checkPhishingUrlWithLangChain returns: a verdict, or its own fail-open
\* result when the model call failed
AiCall(q, ai) ==
  /\ qpc[q] = "ai"
  /\ qai' = [qai EXCEPT ![q] = ai]
  /\ qcalled' = [qcalled EXCEPT ![q] = TRUE]
  /\ qpc' = [qpc EXCEPT ![q] = "upsert"]
  /\ UNCHANGED <<pipelineVars, langVars, msgVars, runVars, urlChecks, extVars, adminVars, qurl,
                 qforce, qonly, qsaw, qres>>

\* the upsert throws (the database is unreachable): the catch block
UpsertError(q) ==
  /\ qpc[q] = "upsert"
  /\ Respond(q, ErrorResponse)
  /\ UNCHANGED <<pipelineVars, langVars, msgVars, runVars, urlChecks, extVars, adminVars, qurl,
                 qforce, qonly, qsaw, qai, qcalled>>

\* upsert as one statement of the database (INSERT ... ON CONFLICT DO UPDATE)
UpsertNative(q) ==
  /\ qpc[q] = "upsert"
  /\ urlChecks' = upsert(urlChecks, ServedKey(qurl[q]), qai[q])
  /\ Respond(q, FreshResponse(qai[q]))
  /\ UNCHANGED <<pipelineVars, langVars, msgVars, runVars, extVars, adminVars, qurl, qforce,
                 qonly, qsaw, qai, qcalled>>

\* upsert as a SELECT followed by a write: the row is looked for ...
UpsertSelect(q) ==
  /\ qpc[q] = "upsert"
  /\ qsaw' = [qsaw EXCEPT ![q] = findUnique(urlChecks, ServedKey(qurl[q])) # <<>>]
  /\ qpc' = [qpc EXCEPT ![q] = "write"]
  /\ UNCHANGED <<pipelineVars, langVars, msgVars, runVars, urlChecks, extVars, adminVars, qurl,
                 qforce, qonly, qai, qres, qcalled>>

\* ... and updated, or created unless the unique index rejects the insert
UpsertWrite(q) ==
  /\ qpc[q] = "write"
  /\ IF qsaw[q]
     THEN /\ urlChecks' = UpdateRow(urlChecks, ServedKey(qurl[q]), qai[q])
          /\ Respond(q, FreshResponse(qai[q]))
     ELSE IF url_checks_url_key(urlChecks, ServedKey(qurl[q]))
     THEN /\ urlChecks' = CreateRow(urlChecks, ServedKey(qurl[q]), qai[q])
          /\ Respond(q, FreshResponse(qai[q]))
     ELSE /\ urlChecks' = urlChecks
          /\ Respond(q, ErrorResponse)
  /\ UNCHANGED <<pipelineVars, langVars, msgVars, runVars, extVars, adminVars, qurl, qforce,
                 qonly, qsaw, qai, qcalled>>

\* the response is sent
Reply(q) ==
  /\ qpc[q] = "done"
  /\ qpc' = [qpc EXCEPT ![q] = "idle"]
  /\ qurl' = [qurl EXCEPT ![q] = NewTab]
  /\ qforce' = [qforce EXCEPT ![q] = FALSE]
  /\ qonly' = [qonly EXCEPT ![q] = FALSE]
  /\ qsaw' = [qsaw EXCEPT ![q] = FALSE]
  /\ qai' = [qai EXCEPT ![q] = Safe]
  /\ qres' = [qres EXCEPT ![q] = NotFoundResponse]
  /\ qcalled' = [qcalled EXCEPT ![q] = FALSE]
  /\ UNCHANGED <<pipelineVars, langVars, msgVars, runVars, urlChecks, extVars, adminVars>>

CheckUrl(q) ==
  \/ \E header \in Headers, url \in RequestUrls, forceRefresh, checkOnly \in BOOLEAN :
       Receive(q, header, url, forceRefresh, checkOnly)
  \/ \E url \in RequestUrls, forceRefresh, checkOnly \in BOOLEAN :
       ReceiveError(q, url, forceRefresh, checkOnly)
  \/ Lookup(q)
  \/ LookupError(q)
  \/ \E ai \in AiResults : AiCall(q, ai)
  \/ UpsertError(q)
  \/ UpsertNative(q)
  \/ UpsertSelect(q)
  \/ UpsertWrite(q)
  \/ Reply(q)

\* -------------------------------------- GET /api/admin/urls, /api/admin/audit
AdminIdle ==
  /\ users = [u \in UserIds |-> IF u = 1 THEN "ADMIN" ELSE "USER"]
  /\ apc = [a \in AdminRequests |-> "idle"]
  /\ ahdr = [a \in AdminRequests |-> NoHeader]
  /\ aroute = [a \in AdminRequests |-> "urls"]
  /\ aqueries = [a \in AdminRequests |-> 0]

AdminRoutes == {"urls", "audit"}

\* the request arrives and waits for the middleware's user lookup
AdminGet(a, route, header) ==
  /\ apc[a] = "idle"
  /\ apc' = [apc EXCEPT ![a] = "auth"]
  /\ ahdr' = [ahdr EXCEPT ![a] = header]
  /\ aroute' = [aroute EXCEPT ![a] = route]
  /\ aqueries' = [aqueries EXCEPT ![a] = 0]
  /\ UNCHANGED <<pipelineVars, langVars, msgVars, runVars, urlChecks, extVars, apiVars, users>>

\* requireAdmin: its error is the response; otherwise the listing starts
AdminAuth(a) ==
  /\ apc[a] = "auth"
  /\ apc' = [apc EXCEPT ![a] =
       IF requireAdmin(ahdr[a]).status = 401 THEN "401"
       ELSE IF requireAdmin(ahdr[a]).status = 403 THEN "403"
       ELSE "count"]
  /\ UNCHANGED <<pipelineVars, langVars, msgVars, runVars, urlChecks, extVars, apiVars, users,
                 ahdr, aroute, aqueries>>

\* prisma.<model>.count({where})
AdminCount(a) ==
  /\ apc[a] = "count"
  /\ aqueries' = [aqueries EXCEPT ![a] = @ + 1]
  /\ apc' = [apc EXCEPT ![a] = "findMany"]
  /\ UNCHANGED <<pipelineVars, langVars, msgVars, runVars, urlChecks, extVars, apiVars, users,
                 ahdr, aroute>>

\* prisma.<model>.findMany: the records are returned
AdminFindMany(a) ==
  /\ apc[a] = "findMany"
  /\ aqueries' = [aqueries EXCEPT ![a] = @ + 1]
  /\ apc' = [apc EXCEPT ![a] = "200"]
  /\ UNCHANGED <<pipelineVars, langVars, msgVars, runVars, urlChecks, extVars, apiVars, users,
                 ahdr, aroute>>

\* a query throws: 500
AdminError(a) ==
  /\ apc[a] \in {"count", "findMany"}
  /\ apc' = [apc EXCEPT ![a] = "500"]
  /\ UNCHANGED <<pipelineVars, langVars, msgVars, runVars, urlChecks, extVars, apiVars, users,
                 ahdr, aroute, aqueries>>

AdminStatuses == {"200", "401", "403", "500"}

AdminReply(a) ==
  /\ apc[a] \in AdminStatuses
  /\ apc' = [apc EXCEPT ![a] = "idle"]
  /\ ahdr' = [ahdr EXCEPT ![a] = NoHeader]
  /\ aroute' = [aroute EXCEPT ![a] = "urls"]
  /\ aqueries' = [aqueries EXCEPT ![a] = 0]
  /\ UNCHANGED <<pipelineVars, langVars, msgVars, runVars, urlChecks, extVars, apiVars, users>>

AdminRequest(a) ==
  \/ \E route \in AdminRoutes, header \in Headers : AdminGet(a, route, header)
  \/ AdminAuth(a)
  \/ AdminCount(a)
  \/ AdminFindMany(a)
  \/ AdminError(a)
  \/ AdminReply(a)

\* the users table changes under the requests: a user is deleted, a role is set
DeleteUser(u) ==
  /\ users[u] # "none"
  /\ users' = [users EXCEPT ![u] = "none"]
  /\ UNCHANGED <<pipelineVars, langVars, msgVars, runVars, urlChecks, extVars, apiVars, apc, ahdr,
                 aroute, aqueries>>

SetRole(u, role) ==
  /\ users[u] \notin {"none", role}
  /\ users' = [users EXCEPT ![u] = role]
  /\ UNCHANGED <<pipelineVars, langVars, msgVars, runVars, urlChecks, extVars, apiVars, apc, ahdr,
                 aroute, aqueries>>

\* ------------------------------------------------------ background script
ExtStart ==
  /\ token = TRUE
  /\ autoScan = TRUE
  /\ blockWarnings = FALSE
  /\ urlCache = [d \in CacheKeys |-> <<>>]
  /\ processingTabs = {}
  /\ redirectedTabs = [t \in Tabs |-> <<>>]
  /\ tabWarnings = [t \in Tabs |-> <<>>]
  /\ tabUrl = [t \in Tabs |-> NewTab]
  /\ pending = [t \in Tabs |-> FALSE]
  /\ via = [t \in Tabs |-> "navigation"]
  /\ scan = [t \in Tabs |-> "none"]
  /\ pendingChecks = {}
  /\ mpc = [m \in Messages |-> "idle"]
  /\ murl = [m \in Messages |-> NewTab]
  /\ mres = [m \in Messages |-> <<>>]
  /\ hpc = [h \in Handlers |-> "idle"]
  /\ htab = [h \in Handlers |-> 1]
  /\ hurl = [h \in Handlers |-> NewTab]
  /\ hres = [h \in Handlers |-> Safe]
  /\ hpage = [h \in Handlers |-> "none"]
  /\ hvia = [h \in Handlers |-> "navigation"]

\* the user's settings and session
Login ==
  /\ token' = ~token
  /\ UNCHANGED <<pipelineVars, langVars, msgVars, runVars, apiVars, adminVars, urlChecks, autoScan, blockWarnings,
                 urlCache, guardVars, tabVars, handlerVars>>

SetAutoScan ==
  /\ autoScan' = ~autoScan
  /\ UNCHANGED <<pipelineVars, langVars, msgVars, runVars, apiVars, adminVars, urlChecks, token, blockWarnings,
                 urlCache, guardVars, tabVars, handlerVars>>

\* a navigation of the tab starts: the browser will report it as 'loading';
\* the scanning page starts its script
IsScanningPage(url) == url.scheme = "chrome-extension" /\ url.path = "scanning.html"
Load(t, url, cause) ==
  /\ tabUrl' = [tabUrl EXCEPT ![t] = url]
  /\ pending' = [pending EXCEPT ![t] = TRUE]
  /\ via' = [via EXCEPT ![t] = cause]
  /\ scan' = [scan EXCEPT ![t] = IF IsScanningPage(url) THEN "checking" ELSE "none"]

\* the user opens a URL in the tab (address bar, link, reload)
Navigate(t, url) ==
  /\ Load(t, url, "navigation")
  /\ UNCHANGED <<pipelineVars, langVars, msgVars, runVars, apiVars, adminVars, urlChecks, settingVars, urlCache,
                 guardVars, handlerVars>>

\* blocked.js, proceedBtn: window.location.href = targetUrl
Proceed(t) ==
  /\ tabUrl[t].scheme = "chrome-extension"
  /\ tabUrl[t].path = "blocked.html"
  /\ Load(t, tabUrl[t].query[1], "proceed")
  /\ UNCHANGED <<pipelineVars, langVars, msgVars, runVars, apiVars, adminVars, urlChecks, settingVars, urlCache,
                 guardVars, handlerVars>>

\* chrome.tabs.onUpdated fires with status 'loading' and the tab's url: an
\* invocation of the listener starts and waits for getAuthToken
OnUpdated(h, t) ==
  /\ pending[t]
  /\ hpc[h] = "idle"
  /\ \A h2 \in Handlers : h2 < h => hpc[h2] # "idle"
  /\ pending' = [pending EXCEPT ![t] = FALSE]
  /\ hpc' = [hpc EXCEPT ![h] = "token"]
  /\ htab' = [htab EXCEPT ![h] = t]
  /\ hurl' = [hurl EXCEPT ![h] = tabUrl[t]]
  /\ hvia' = [hvia EXCEPT ![h] = via[t]]
  /\ UNCHANGED <<pipelineVars, langVars, msgVars, runVars, apiVars, adminVars, urlChecks, settingVars, urlCache,
                 guardVars, tabUrl, via, scan, hres, hpage>>

\* not logged in: fail open; otherwise wait for the autoScan setting
GetToken(h) ==
  /\ hpc[h] = "token"
  /\ hpc' = [hpc EXCEPT ![h] = IF token THEN "autoScan" ELSE "loggedOut"]
  /\ UNCHANGED <<pipelineVars, langVars, msgVars, runVars, apiVars, adminVars, urlChecks, settingVars, urlCache,
                 guardVars, tabVars, htab, hurl, hres, hpage, hvia>>

\* processingTabs.add(tabId); redirectedTabs.set(tabId, url); then the
\* redirect is awaited
StartRedirect(h, page) ==
  /\ processingTabs' = processingTabs \cup {htab[h]}
  /\ redirectedTabs' = [redirectedTabs EXCEPT ![htab[h]] = <<hurl[h]>>]
  /\ hpc' = [hpc EXCEPT ![h] = "update"]
  /\ hpage' = [hpage EXCEPT ![h] = page]
  /\ UNCHANGED tabWarnings

\* redirectedTabs.delete(tabId); return
Allow(h, outcome) ==
  /\ redirectedTabs' = [redirectedTabs EXCEPT ![htab[h]] = <<>>]
  /\ hpc' = [hpc EXCEPT ![h] = outcome]
  /\ UNCHANGED <<processingTabs, tabWarnings, hpage>>

\* tabWarnings.set(tabId, warningInfo); redirectedTabs.delete(tabId); return.
\* The warning's reason is the one of the result for the page's base domain.
WarningInfo(url) == [warningReason |-> getBaseDomain(url)]
Warn(h) ==
  /\ tabWarnings' = [tabWarnings EXCEPT ![htab[h]] = <<WarningInfo(hurl[h])>>]
  /\ redirectedTabs' = [redirectedTabs EXCEPT ![htab[h]] = <<>>]
  /\ hpc' = [hpc EXCEPT ![h] = "warned"]
  /\ UNCHANGED <<processingTabs, hpage>>

\* return, nothing touched
Skip(h, outcome) ==
  /\ hpc' = [hpc EXCEPT ![h] = outcome]
  /\ UNCHANGED <<guardVars, hpage>>

\* what the listener does with a result it has for the base domain
ActOn(h, result) ==
  IF result.isPhishing THEN StartRedirect(h, "blocked.html") /\ hres' = hres
  ELSE IF result.hasWarning
  THEN /\ hpc' = [hpc EXCEPT ![h] = "blockWarnings"]
       /\ hres' = [hres EXCEPT ![h] = result]
       /\ UNCHANGED <<guardVars, hpage>>
  ELSE Allow(h, "allowed") /\ hres' = hres

\* the autoScan setting is read; then, without a pause, the skip conditions
\* and the memory cache
Guards(h) ==
  /\ hpc[h] = "autoScan"
  /\ IF ~autoScan THEN Skip(h, "disabled") /\ hres' = hres
     ELSE IF IsInternal(hurl[h]) THEN Skip(h, "internal") /\ hres' = hres
     ELSE IF IsOwnPage(hurl[h]) THEN Allow(h, "ownPage") /\ hres' = hres
     ELSE IF htab[h] \in processingTabs THEN Skip(h, "busy") /\ hres' = hres
     ELSE IF redirectedTabs[htab[h]] = <<hurl[h]>> THEN Skip(h, "loop") /\ hres' = hres
     ELSE IF urlCache[getBaseDomain(hurl[h])] # <<>>
     THEN ActOn(h, urlCache[getBaseDomain(hurl[h])][1])
     ELSE Skip(h, "token2") /\ hres' = hres
  /\ UNCHANGED <<pipelineVars, langVars, msgVars, runVars, apiVars, adminVars, urlChecks, settingVars, urlCache,
                 tabVars, htab, hurl, hvia>>

\* a warning: the blockWarnings setting decides
GetBlockWarnings(h) ==
  /\ hpc[h] = "blockWarnings"
  /\ IF blockWarnings THEN StartRedirect(h, "warning.html")
     ELSE Warn(h)
  /\ UNCHANGED <<pipelineVars, langVars, msgVars, runVars, apiVars, adminVars, urlChecks, settingVars, urlCache,
                 tabVars, htab, hurl, hres, hvia>>

\* not in the memory cache: the token again, then the request is sent with
\* the base domain and checkOnly
GetToken2(h) ==
  /\ hpc[h] = "token2"
  /\ IF token THEN Skip(h, "fetch") ELSE Allow(h, "loggedOut")
  /\ UNCHANGED <<pipelineVars, langVars, msgVars, runVars, apiVars, adminVars, urlChecks, settingVars, urlCache,
                 tabVars, htab, hurl, hres, hvia>>

\* the response: not ok or an error: the scanning page; notFound: the
\* scanning page; a stored row: cache it and act on it
FetchFailed(h) ==
  /\ hpc[h] = "fetch"
  /\ StartRedirect(h, "scanning.html")
  /\ UNCHANGED <<pipelineVars, langVars, msgVars, runVars, apiVars, adminVars, urlChecks, settingVars, urlCache,
                 tabVars, htab, hurl, hres, hvia>>

DbResponse(h) ==
  CheckUrlResponse(urlChecks, getBaseDomain(hurl[h]), FALSE, TRUE, Safe)

FetchAnswered(h) ==
  /\ hpc[h] = "fetch"
  /\ IF DbResponse(h).notFound
     THEN /\ StartRedirect(h, "scanning.html")
          /\ UNCHANGED <<urlCache, hres>>
     ELSE /\ urlCache' = [urlCache EXCEPT ![getBaseDomain(hurl[h])] =
                            <<Verdict(DbResponse(h).isPhishing, DbResponse(h).hasWarning, FALSE)>>]
          /\ ActOn(h, DbResponse(h))
  /\ UNCHANGED <<pipelineVars, langVars, msgVars, runVars, apiVars, adminVars, urlChecks, settingVars, tabVars, htab,
                 hurl, hvia>>

\* await chrome.tabs.update(tabId, {url}); processingTabs.delete(tabId)
Update(h) ==
  /\ hpc[h] = "update"
  /\ Load(htab[h], getExtensionUrl(hpage[h], hurl[h]), "navigation")
  /\ processingTabs' = processingTabs \ {htab[h]}
  /\ hpc' = [hpc EXCEPT ![h] = "redirected"]
  /\ UNCHANGED <<pipelineVars, langVars, msgVars, runVars, apiVars, adminVars, urlChecks, settingVars, urlCache,
                 redirectedTabs, tabWarnings, htab, hurl, hres, hpage, hvia>>

HandlerOutcomes ==
  {"loggedOut", "disabled", "internal", "ownPage", "busy", "loop", "allowed",
   "warned", "redirected"}

\* the invocation is over
HandlerReturn(h) ==
  /\ hpc[h] \in HandlerOutcomes
  /\ hpc' = [hpc EXCEPT ![h] = "idle"]
  /\ htab' = [htab EXCEPT ![h] = 1]
  /\ hurl' = [hurl EXCEPT ![h] = NewTab]
  /\ hres' = [hres EXCEPT ![h] = Safe]
  /\ hpage' = [hpage EXCEPT ![h] = "none"]
  /\ hvia' = [hvia EXCEPT ![h] = "navigation"]
  /\ UNCHANGED <<pipelineVars, langVars, msgVars, runVars, apiVars, adminVars, urlChecks, settingVars, urlCache,
                 guardVars, tabVars>>

Listener(h) ==
  \/ \E t \in Tabs : OnUpdated(h, t)
  \/ GetToken(h)
  \/ Guards(h)
  \/ GetBlockWarnings(h)
  \/ GetToken2(h)
  \/ FetchFailed(h)
  \/ FetchAnswered(h)
  \/ Update(h)
  \/ HandlerReturn(h)

\* ---------------------------------------------------------- scanning page
\* scanning.js on the page the tab shows: check the base domain (the AI is
\* asked when no row is stored), send the result to the background script's
\* cache, go on to the blocked page, the warning page or the target
OnScanningPage(t) == IsScanningPage(tabUrl[t]) /\ scan[t] = "checking"
ScanTarget(t) == tabUrl[t].query[1]
\* a handler of 'cacheResult' that would keep results with an error field out
\* of the cache
CacheResultWithoutErrors(url, result) ==
  urlCache' = IF result.error THEN urlCache
              ELSE [urlCache EXCEPT ![getBaseDomain(url)] = <<result>>]

\* onMessage, 'cacheResult': urlCache.set(baseDomain, result)
CacheResult(url, result) ==
  urlCache' = [urlCache EXCEPT ![getBaseDomain(url)] = <<result>>]

\* params.get('forceRefresh') === 'true'
ForceRefresh(t) == Len(tabUrl[t].query) > 1

ScanAnswered(t, ai) ==
  /\ LET bd == getBaseDomain(ScanTarget(t))
         res == CheckUrlResponse(urlChecks, bd, ForceRefresh(t), FALSE, ai)
     IN /\ urlChecks' = CheckUrlTable(urlChecks, bd, ForceRefresh(t), FALSE, ai)
        /\ CacheResult(ScanTarget(t), Verdict(res.isPhishing, res.hasWarning, FALSE))
        /\ IF res.isPhishing
           THEN Load(t, getExtensionUrl("blocked.html", ScanTarget(t)), "navigation")
           ELSE IF res.hasWarning
           THEN Load(t, getExtensionUrl("warning.html", ScanTarget(t)), "navigation")
           ELSE Load(t, ScanTarget(t), "scan")
  /\ UNCHANGED <<pipelineVars, langVars, msgVars, runVars, apiVars, adminVars, settingVars, guardVars, handlerVars>>

ScanChecked(t) ==
  /\ OnScanningPage(t)
  /\ token
  /\ \E ai \in AiVerdicts : ScanAnswered(t, ai)

\* checkUrl finds no token: its fail-open result names the authentication;
\* the result is cached and the page stays, with the message
ScanNoToken(t) ==
  /\ OnScanningPage(t)
  /\ ~token
  /\ CacheResult(ScanTarget(t), FailOpen)
  /\ scan' = [scan EXCEPT ![t] = "authRequired"]
  /\ UNCHANGED <<pipelineVars, langVars, msgVars, runVars, apiVars, adminVars, urlChecks, settingVars, guardVars,
                 tabUrl, pending, via, handlerVars>>

\* the request fails or the response is not ok: the fail-open result is
\* cached and the page goes on to the target
ScanRequestFailed(t) ==
  /\ OnScanningPage(t)
  /\ token
  /\ CacheResult(ScanTarget(t), FailOpen)
  /\ Load(t, ScanTarget(t), "scan")
  /\ UNCHANGED <<pipelineVars, langVars, msgVars, runVars, apiVars, adminVars, urlChecks, settingVars, guardVars,
                 handlerVars>>

\* the response is 401: the token is removed as well
ScanUnauthorized(t) ==
  /\ OnScanningPage(t)
  /\ token
  /\ token' = FALSE
  /\ CacheResult(ScanTarget(t), FailOpen)
  /\ Load(t, ScanTarget(t), "scan")
  /\ UNCHANGED <<pipelineVars, langVars, msgVars, runVars, apiVars, adminVars, urlChecks, autoScan, blockWarnings,
                 guardVars, handlerVars>>

ScanFailed(t) ==
  \/ ScanNoToken(t)
  \/ ScanRequestFailed(t)
  \/ ScanUnauthorized(t)

\* a scanning page without the timer of the race
ScanWithoutTimeout(t) ==
  /\ FALSE
  /\ UNCHANGED vars

\* no answer within 30 s: the race is lost, nothing is cached, the page goes
\* on to the target after its message
ScanTimeout(t) ==
  /\ OnScanningPage(t)
  /\ Load(t, ScanTarget(t), "scan")
  /\ UNCHANGED <<pipelineVars, langVars, msgVars, runVars, apiVars, adminVars, urlChecks, settingVars, urlCache,
                 guardVars, handlerVars>>

\* blocked.js and the warning page, scanAgainBtn: the 'clearCache' message
\* for the target, then the scanning page with forceRefresh=true
OnVerdictPage(t) ==
  IsInternal(tabUrl[t]) /\ tabUrl[t].path \in {"blocked.html", "warning.html"}
ScanAgain(t) ==
  /\ OnVerdictPage(t)
  /\ urlCache' = [urlCache EXCEPT ![getBaseDomain(ScanTarget(t))] = <<>>]
  /\ Load(t, [getExtensionUrl("scanning.html", ScanTarget(t)) EXCEPT
                 !.query = <<ScanTarget(t), "forceRefresh">>], "navigation")
  /\ UNCHANGED <<pipelineVars, langVars, msgVars, runVars, apiVars, adminVars, urlChecks,
                 settingVars, guardVars, handlerVars>>

\* ------------------------------------------- messages and cleanup listeners
\* onMessage, 'clearCache' with a url (the popup's scan button, 'scan again')
ClearCache(url) ==
  /\ urlCache[getBaseDomain(url)] # <<>>
  /\ urlCache' = [urlCache EXCEPT ![getBaseDomain(url)] = <<>>]
  /\ UNCHANGED <<pipelineVars, langVars, msgVars, runVars, apiVars, adminVars, urlChecks, settingVars, guardVars,
                 tabVars, handlerVars>>

\* a handler of 'getWarningForTab' that would answer for the page's own site
\* only
getWarningForTabOfThePage(sender, activeTab) ==
  IF tabWarnings[activeTab] # <<>>
       /\ tabWarnings[activeTab][1] = WarningInfo(tabUrl[sender])
  THEN tabWarnings[activeTab] ELSE <<>>

\* onMessage, 'checkUrl': shouldBlockUrl(request.url), answered with its
\* result. The call is over at once when the memory cache has the normalized
\* URL (the cached result) or when a check of it is pending (null, written
\* <<>>); otherwise the URL is marked pending and checkUrl waits for
\* getAuthToken.
finallyMissing(normalizedUrl) == pendingChecks' = pendingChecks
finally(normalizedUrl) == pendingChecks' = pendingChecks \ {normalizedUrl}

shouldBlockUrl(m, url) ==
  /\ mpc[m] = "idle"
  /\ \A m2 \in Messages : m2 < m => mpc[m2] # "idle"
  /\ murl' = [murl EXCEPT ![m] = backgroundNormalizeUrl(url)]
  /\ IF urlCache[backgroundNormalizeUrl(url)] # <<>>
     THEN /\ mres' = [mres EXCEPT ![m] = urlCache[backgroundNormalizeUrl(url)]]
          /\ mpc' = [mpc EXCEPT ![m] = "done"]
          /\ UNCHANGED pendingChecks
     ELSE IF backgroundNormalizeUrl(url) \in pendingChecks
     THEN /\ mres' = [mres EXCEPT ![m] = <<>>]
          /\ mpc' = [mpc EXCEPT ![m] = "done"]
          /\ UNCHANGED pendingChecks
     ELSE /\ pendingChecks' = pendingChecks \cup {backgroundNormalizeUrl(url)}
          /\ mpc' = [mpc EXCEPT ![m] = "token"]
          /\ UNCHANGED mres
  /\ UNCHANGED <<pipelineVars, langVars, runVars, apiVars, adminVars, urlChecks, extVars>>

\* checkUrl has a result: urlCache.set(normalizedUrl, result); return result;
\* finally pendingChecks.delete(normalizedUrl)
SetAndReturn(m, result) ==
  /\ urlCache' = [urlCache EXCEPT ![murl[m]] = <<result>>]
  /\ mres' = [mres EXCEPT ![m] = <<result>>]
  /\ mpc' = [mpc EXCEPT ![m] = "done"]
  /\ finally(murl[m])
  /\ UNCHANGED murl

\* checkUrl after getAuthToken: without a token its result is the fail-open
\* one; with a token the request is sent
MessageGetToken(m) ==
  /\ mpc[m] = "token"
  /\ IF token
     THEN /\ mpc' = [mpc EXCEPT ![m] = "fetch"]
          /\ UNCHANGED <<urlCache, pendingChecks, murl, mres>>
     ELSE SetAndReturn(m, FailOpen)
  /\ UNCHANGED <<pipelineVars, langVars, runVars, apiVars, adminVars, urlChecks, settingVars, guardVars,
                 tabVars, handlerVars>>

\* the response is ok: the route's answer for the normalized URL
MessageAnswered(m) ==
  /\ mpc[m] = "fetch"
  /\ \E ai \in AiVerdicts :
       LET res == CheckUrlResponse(urlChecks, murl[m], FALSE, FALSE, ai)
       IN /\ urlChecks' = CheckUrlTable(urlChecks, murl[m], FALSE, FALSE, ai)
          /\ SetAndReturn(m, Verdict(res.isPhishing, res.hasWarning, FALSE))
  /\ UNCHANGED <<pipelineVars, langVars, runVars, apiVars, adminVars, settingVars, guardVars, tabVars,
                 handlerVars>>

\* the request fails or the response is not ok: fail open; a 401 removes the
\* token first
MessageFailed(m) ==
  /\ mpc[m] = "fetch"
  /\ SetAndReturn(m, FailOpen)
  /\ token' \in {token, FALSE}
  /\ UNCHANGED <<pipelineVars, langVars, runVars, apiVars, adminVars, urlChecks, autoScan, blockWarnings,
                 guardVars, tabVars, handlerVars>>

\* sendResponse(result)
MessageResponse(m) ==
  /\ mpc[m] = "done"
  /\ mpc' = [mpc EXCEPT ![m] = "idle"]
  /\ murl' = [murl EXCEPT ![m] = NewTab]
  /\ mres' = [mres EXCEPT ![m] = <<>>]
  /\ UNCHANGED <<pipelineVars, langVars, runVars, apiVars, adminVars, urlChecks, extVars, pendingChecks>>

CheckUrlMessage(m) ==
  \/ \E url \in MessageUrls : shouldBlockUrl(m, url)
  \/ MessageGetToken(m)
  \/ MessageAnswered(m)
  \/ MessageFailed(m)
  \/ MessageResponse(m)

\* onMessage, 'clearCache' without a url: urlCache.clear()
ClearAllCache ==
  /\ \E d \in CacheKeys : urlCache[d] # <<>>
  /\ urlCache' = [d \in CacheKeys |-> <<>>]
  /\ UNCHANGED <<pipelineVars, langVars, msgVars, runVars, apiVars, adminVars, urlChecks, settingVars,
                 guardVars, tabVars, handlerVars>>

\* onMessage, 'getWarningForTab': the entry of the active tab of the current
\* window, whoever asks
getWarningForTab(sender, activeTab) == tabWarnings[activeTab]

\* chrome.tabs.onRemoved (both listeners): the tab is closed while no
\* invocation for it is under way; the next tab opens on the new-tab page
onRemoved(t) ==
  /\ \A h \in Handlers : hpc[h] = "idle" \/ htab[h] # t
  /\ tabUrl[t] # NewTab \/ tabWarnings[t] # <<>> \/ redirectedTabs[t] # <<>>
  /\ processingTabs' = processingTabs \ {t}
  /\ redirectedTabs' = [redirectedTabs EXCEPT ![t] = <<>>]
  /\ tabWarnings' = [tabWarnings EXCEPT ![t] = <<>>]
  /\ tabUrl' = [tabUrl EXCEPT ![t] = NewTab]
  /\ pending' = [pending EXCEPT ![t] = FALSE]
  /\ via' = [via EXCEPT ![t] = "navigation"]
  /\ scan' = [scan EXCEPT ![t] = "none"]
  /\ UNCHANGED <<pipelineVars, langVars, msgVars, runVars, apiVars, adminVars, urlChecks, settingVars, urlCache,
                 handlerVars>>

\* chrome.runtime.onStartup and onInstalled: the background script starts
\* anew, so its Sets and Maps are empty; the listeners clear urlCache,
\* pendingChecks and tabWarnings once more. No invocation is under way and no
\* tab shows a page of the extension.
onStartup ==
  /\ \A h \in Handlers : hpc[h] = "idle"
  /\ \A m \in Messages : mpc[m] = "idle"
  /\ \A t \in Tabs : ~pending[t] /\ tabUrl[t].scheme # "chrome-extension"
  /\ urlCache' = [d \in CacheKeys |-> <<>>]
  /\ pendingChecks' = {}
  /\ tabWarnings' = [t \in Tabs |-> <<>>]
  /\ processingTabs' = {}
  /\ redirectedTabs' = [t \in Tabs |-> <<>>]
  /\ UNCHANGED <<pipelineVars, langVars, runVars, apiVars, adminVars, urlChecks, settingVars, tabVars,
                 handlerVars, mpc, murl, mres>>

\* ------------------------------------------- checkPhishingUrlWithLangChain
maxIterations == 5
MaxToolCalls == 2

LangIdle ==
  /\ lpc = "idle"
  /\ iteration = 0
  /\ toolUsed = FALSE
  /\ messages = <<>>
  /\ invocations = 0
  /\ lresult = <<>>

\* what one call of a tool does: fetchWebsiteContent answers, it throws, or
\* the model has named another tool
ToolCalls == {"fetched", "throws", "otherTool"}
\* what modelWithTools.invoke gives: it throws or resolves to nothing; tool
\* calls; content that extracts to the empty string; no content at all; a
\* final answer that parses to a verdict; text that does not parse
ModelResponses ==
  {[kind |-> k, toolCalls |-> <<>>, verdict |-> Safe] : k \in {"throws", "empty", "noContent", "text"}}
  \cup {[kind |-> "toolCalls", toolCalls |-> tc, verdict |-> Safe] :
          tc \in UNION {[1..n -> ToolCalls] : n \in 1..MaxToolCalls}}
  \cup {[kind |-> "final", toolCalls |-> <<>>, verdict |-> v] : v \in AiVerdicts}

\* the call starts: messages holds the prompt
LangStart ==
  /\ lpc = "idle"
  /\ lpc' = "loop"
  /\ iteration' = 0
  /\ toolUsed' = FALSE
  /\ messages' = <<"human">>
  /\ invocations' = 0
  /\ lresult' = <<>>
  /\ UNCHANGED <<pipelineVars, runVars, urlChecks, extVars, apiVars, adminVars, msgVars>>

\* return of a result
LangReturn(result) ==
  /\ lpc' = "returned"
  /\ lresult' = <<result>>

\* an error that leaves the function: the promise is rejected
rethrow ==
  /\ lpc' = "thrown"
  /\ lresult' = <<>>
\* catch (error): fail open
catch == LangReturn(UnableToVerify)

\* the ToolMessages the tool calls of one response add
ToolMessages(toolCalls) ==
  SelectSeq([i \in 1..Len(toolCalls) |-> IF toolCalls[i] = "fetched" THEN "tool" ELSE "none"],
            LAMBDA kind : kind = "tool")

\* while (iteration < maxIterations): one pass with the model's response
Iterate(response) ==
  /\ lpc = "loop"
  /\ iteration < maxIterations
  /\ invocations' = invocations + 1
  /\ CASE response.kind = "throws" ->
            /\ catch
            /\ iteration' = iteration + 1
            /\ UNCHANGED <<toolUsed, messages>>
       [] response.kind = "toolCalls" ->
            /\ iteration' = iteration + 1
            /\ toolUsed' = TRUE
            /\ messages' = messages \o <<"ai">> \o ToolMessages(response.toolCalls)
            /\ UNCHANGED <<lpc, lresult>>
       [] response.kind = "empty" ->
            /\ iteration' = iteration + 2
            /\ messages' = Append(messages, "ai")
            /\ UNCHANGED <<lpc, toolUsed, lresult>>
       [] response.kind = "final" ->
            /\ LangReturn(response.verdict)
            /\ iteration' = iteration + 1
            /\ messages' = Append(messages, "ai")
            /\ UNCHANGED toolUsed
       [] response.kind \in {"noContent", "text"} ->
            /\ LangReturn(Safe)
            /\ iteration' = iteration + 1
            /\ messages' = Append(messages, "ai")
            /\ UNCHANGED toolUsed
  /\ UNCHANGED <<pipelineVars, runVars, urlChecks, extVars, apiVars, adminVars, msgVars>>

\* the loop is left: the default result
MaxIterationsReached ==
  /\ lpc = "loop"
  /\ iteration >= maxIterations
  /\ LangReturn(UnableToVerify)
  /\ UNCHANGED <<pipelineVars, runVars, urlChecks, extVars, apiVars, adminVars, msgVars,
                 iteration, toolUsed, messages, invocations>>

\* the caller has the result
LangDone ==
  /\ lpc = "returned"
  /\ lpc' = "idle"
  /\ iteration' = 0
  /\ toolUsed' = FALSE
  /\ messages' = <<>>
  /\ invocations' = 0
  /\ lresult' = <<>>
  /\ UNCHANGED <<pipelineVars, runVars, urlChecks, extVars, apiVars, adminVars, msgVars>>

LangNext ==
  \/ LangStart
  \/ \E response \in ModelResponses : Iterate(response)
  \/ MaxIterationsReached
  \/ LangDone

\* ------------------------------------------------------- specifications
Init ==
  /\ PipelineInit
  /\ rprov = [r \in Runs |-> "openai"]
  /\ RunStart
  /\ urlChecks = <<>>
  /\ ExtStart
  /\ ApiIdle
  /\ AdminIdle
  /\ LangIdle

\* the pipeline as the repository describes it: uploads arrive, workers poll,
\* claim, handle and may crash
Next ==
  \/ \E u \in Uploads : Upload(u)
  \/ \E w \in Workers : WorkerStep(w)
  \/ \E w \in Workers : Crash(w)

Spec == Init /\ [][Next]_vars

\* the finalize requests step by step, concurrent and retried
UploadNext ==
  \/ \E u \in Uploads : Initiate(u)
  \/ \E c \in Callers : Finalize(c)

UploadSpec == Init /\ [][UploadNext]_vars

\* the finalize requests on a bucket where other uploads are in flight under
\* longer keys
FindNext ==
  \/ UploadNext
  \/ \E u \in Uploads : OtherUpload(u)

FindSpec == Init /\ [][FindNext]_vars

\* the pipeline with the stale-processing requeue added to it, on one upload
SweepNext ==
  \/ Upload(1)
  \/ \E w \in Workers : WorkerStep(w)
  \/ \E w \in Workers : Crash(w)
  \/ \E u \in Uploads : Timeout(u)
  \/ \E u \in Uploads : Sweep(u)

SweepSpec == Init /\ [][SweepNext]_vars

\* the workers are scheduled fairly; a crash is never owed
FairSpec == Spec /\ \A w \in Workers : WF_vars(WorkerStep(w))

\* two runs of the pipeline under any two provider configurations
RunInit ==
  /\ PipelineInit
  /\ rprov \in [Runs -> Providers]
  /\ RunStart
  /\ urlChecks = <<>>
  /\ ExtStart
  /\ ApiIdle
  /\ AdminIdle
  /\ LangIdle

RunNext == \E u \in Uploads, ev \in RunEvents : RunEvent(u, ev)

RunSpec == RunInit /\ [][RunNext]_vars

\* the browser with the extension: the user navigates, the listener runs,
\* the scanning page checks
ExtNext ==
  \/ \E t \in Tabs, url \in UserUrls : Navigate(t, url)
  \/ \E t \in Tabs : Proceed(t)
  \/ \E h \in Handlers : Listener(h)
  \/ \E t \in Tabs : ScanChecked(t)
  \/ \E t \in Tabs : ScanFailed(t)
  \/ \E t \in Tabs : ScanTimeout(t)
  \/ \E url \in UserUrls : ClearCache(url)
  \/ \E t \in Tabs : onRemoved(t)
  \/ onStartup
  \/ Login
  \/ SetAutoScan

ExtSpec == Init /\ [][ExtNext]_vars

\* the extension with pages of two sites, the user logged in and auto-scan on
WarnNext ==
  \/ \E t \in Tabs, url \in TwoSites : Navigate(t, url)
  \/ \E h \in Handlers : Listener(h)
  \/ \E t \in Tabs : ScanChecked(t)
  \/ \E t \in Tabs : onRemoved(t)
  \/ onStartup

WarnSpec == Init /\ [][WarnNext]_vars

\* the scanning page and what sends tabs to it; the timer of the page's race
\* runs out 30 s after the page has started
PageNext ==
  \/ \E t \in Tabs : Navigate(t, EvilLogin)
  \/ \E h \in Handlers : Listener(h)
  \/ \E t \in Tabs : ScanChecked(t)
  \/ \E t \in Tabs : ScanFailed(t)
  \/ \E t \in Tabs : ScanTimeout(t)
  \/ Login

\* the same with the 'Scan again' button of the blocked and the warning page
AgainNext ==
  \/ PageNext
  \/ \E t \in Tabs : ScanAgain(t)

AgainSpec == Init /\ [][AgainNext]_vars

\* every model call is answered
LangSpec == Init /\ [][LangNext]_vars /\ WF_vars(LangNext)

\* the 'checkUrl' messages of content scripts
MessageNext ==
  \/ \E m \in Messages : CheckUrlMessage(m)
  \/ ClearAllCache
  \/ onStartup
  \/ Login

MessageSpec == Init /\ [][MessageNext]_vars

PageSpec == Init /\ [][PageNext]_vars /\ \A t \in Tabs : WF_vars(ScanTimeout(t))

\* the check-url route under concurrent requests
CheckNext == \E q \in Requests : CheckUrl(q)

CheckSpec == Init /\ [][CheckNext]_vars

\* the admin listing routes while the users table changes
AdminNext ==
  \/ \E a \in AdminRequests : AdminRequest(a)
  \/ \E u \in UserIds : DeleteUser(u)
  \/ \E u \in UserIds : SetRole(u, "ADMIN")

AdminSpec == Init /\ [][AdminNext]_vars

\* ================================================================ claims

\* C1: of the claims made on one queued job, exactly one affects a row and
\* moves the job from queued to processing; every other one affects zero rows
\* and leaves the row as it is.
C1_ExactlyOneClaimWins ==
  /\ [](\A u \in Uploads : won[u] <= 1 /\ (lost[u] > 0 => won[u] = 1))
  /\ [][\A u \in Uploads :
          /\ won'[u] > won[u] =>
               job[u].state = "queued" /\ job'[u].state = "processing"
          /\ lost'[u] > lost[u] => job'[u] = job[u]]_vars

\* every worker has tried to claim the same queued job: one won, the rest lost
C1_Witness ==
  \E u \in Uploads : won[u] = 1 /\ lost[u] = NumWorkers - 1

InProgress(u) ==
  \E c \in Callers : fjob[c] = u /\ fpc[c] \in {"find", "complete", "insert"}
ReturnedSuccess(u) ==
  \E c \in Callers : fjob[c] = u /\ fpc[c] = "success"
C3_ExactlyOneJobRow ==
  \A u \in Uploads :
    (OriginalKey(u) \in objects /\ ReturnedSuccess(u) /\ ~InProgress(u)) =>
      rows[u] = 1

\* never more than one Job row per upload (the half of C3 that holds)
AtMostOneJobRow == \A u \in Uploads : rows[u] <= 1

\* C4: a finalize request that starts when the object exists already returns
\* the success result of the request that completed the upload and leaves the
\* Job rows as they are.
FinalizeResult(c) == [status |-> fpc[c], jobId |-> fjob[c]]
C4_SecondFinalizeIsSuccess ==
  [][\A c \in Callers, u \in Uploads :
       (fpc[c] = "idle" /\ fjob'[c] = u /\ OriginalKey(u) \in objects) =>
         /\ FinalizeResult(c)' = [status |-> "success", jobId |-> u]
         /\ rows' = rows]_vars

\* two requests for one upload have both returned success, and there is one row
C4_Witness ==
  \E c1, c2 \in Callers, u \in Uploads :
    /\ c1 # c2
    /\ FinalizeResult(c1) = [status |-> "success", jobId |-> u]
    /\ FinalizeResult(c2) = FinalizeResult(c1)
    /\ rows[u] = 1

StageRank(st) ==
  CASE st = "none" -> 0
    [] st = "transcode" -> 1
    [] st = "asr" -> 2
    [] st = "asr_completed" -> 3
C6_StageNeverGoesBack ==
  [][\A u \in Uploads :
       /\ StageRank(job'[u].stage) >= StageRank(job[u].stage)
       /\ fails'[u] # fails[u] => job'[u].stage = job[u].stage]_vars

\* a job went through every stage and was retried on the way
C6_Witness ==
  \E u \in Uploads : job[u].stage = "asr_completed" /\ job[u].retryCount > 0

\* C7: while a worker is left to run, a job that is processing eventually
\* leaves processing.
AllCrashed == \A w \in Workers : wpc[w] = "crashed"
C7_NoJobStuckInProcessing ==
  \A u \in Uploads :
    (job[u].state = "processing") ~> (job[u].state # "processing" \/ AllCrashed)

\* C8: the poll query never selects a job that is done or failed, and the row
\* of such a job never changes again.
Terminal(u) == job[u].state \in {"done", "failed"}
C8_TerminalStatesAreFinal ==
  [][\A u \in Uploads :
       Terminal(u) =>
         /\ job'[u] = job[u]
         /\ \A w \in Workers : (wpc[w] = "poll" /\ wpc'[w] = "claim") => wjob'[w] # u]_vars

\* one job is done, the other failed: the workers went on after the first
C8_Witness ==
  \E u1, u2 \in Uploads : job[u1].state = "done" /\ job[u2].state = "failed"

\* C9: the step in which a handler failure is recorded applies the retry
\* policy to the job and leaves the worker polling; no worker ever leaves the
\* loop except by a crash.
InLoop(w) == wpc[w] \in {"poll", "claim", "work", "inserted"}
C9_FailureKeepsWorkerPolling ==
  /\ [](\A w \in Workers : InLoop(w) \/ wpc[w] = "crashed")
  /\ [][\A w \in Workers, u \in Uploads :
          (Holds(w, u) /\ fails'[u] # fails[u]) =>
            /\ wpc'[w] = "poll"
            /\ job'[u] = RetryOrFail(job[u])
            /\ job'[u].state \in {"queued", "failed"}]_vars

\* after the handler of one job failed, with no worker lost, a worker is
\* handling another job
C9_Witness ==
  \E u1, u2 \in Uploads, w \in Workers :
    /\ u1 # u2
    /\ fails[u1] > 0 /\ job[u1].state \in {"queued", "failed"}
    /\ \A x \in Workers : InLoop(x)
    /\ fails[u2] = 0 /\ Holds(w, u2)

\* C10 as stated: a job that is done has exactly one Transcript row and a job
\* that is not done has none (not counting the moment between the insert and
\* the update of a running handler); a row, once inserted, stays as it is.
TranscriptsOf(u) == SelectSeq(transcripts, LAMBDA t : t.jobId = u)
Finishing(u) == \E w \in Workers : wpc[w] = "inserted" /\ wjob[w] = u
C10_TranscriptOnlyWhenDone ==
  \A u \in Uploads :
    /\ job[u].state = "done" => Len(TranscriptsOf(u)) = 1
    /\ (job[u].state # "done" /\ ~Finishing(u)) => Len(TranscriptsOf(u)) = 0

\* C11: a finalize request fails with UploadSessionNotFound exactly when its
\* lookup finds no in-flight upload for the key, and with the storage error
\* when the storage call fails; a request that ends in an error leaves the
\* bucket and the Job rows as they are, and only the insert of a request that
\* goes on to success ever adds a Job row.
FinalizeErrors == {"UploadSessionNotFound", "StorageError", "InternalError"}
C11_FailedFinalizeCreatesNoJob ==
  [][\A c \in Callers :
       fpc'[c] # fpc[c] =>
         /\ fpc[c] = "find" =>
              (fpc'[c] = "UploadSessionNotFound"
                 <=> ~\E s \in sessions : s.Key = OriginalKey(fjob[c]))
         /\ fpc'[c] = "UploadSessionNotFound" => fpc[c] = "find"
         /\ fpc'[c] = "StorageError" => fpc[c] = "complete"
         /\ fpc'[c] \in FinalizeErrors =>
              rows' = rows /\ job' = job /\ objects' = objects
         /\ fpc[c] = "success" => fpc'[c] = "idle"
         /\ ~(fpc[c] = "insert" /\ fpc'[c] = "success") => rows' = rows]_vars

\* one request failed with UploadSessionNotFound, another with the storage
\* error, and there is no Job row
C11_Witness ==
  \E c1, c2 \in Callers :
    /\ fpc[c1] = "UploadSessionNotFound" /\ fpc[c2] = "StorageError"
    /\ \A u \in Uploads : rows[u] = 0

\* C12: two runs that are given the same sequence of handler successes and
\* failures under different providers show the same state, stage and
\* retryCount of every job at every point, and the same Transcript rows but
\* for the fields provider and meta.
Observed(j) == [state |-> j.state, stage |-> j.stage, retryCount |-> j.retryCount]
SameButProvider(t1, t2) ==
  /\ t1.jobId = t2.jobId
  /\ t1.rawKey = t2.rawKey
  /\ t1.textKey = t2.textKey
C18_FailureRequeuesOrFails ==
  [][\A u \in Uploads :
       fails'[u] # fails[u] =>
         /\ job[u].state = "processing"
         /\ job[u].retryCount < MaxRetries =>
              job'[u] = [job[u] EXCEPT !.state = "queued",
                                       !.retryCount = job[u].retryCount + 1]
         /\ job[u].retryCount >= MaxRetries =>
              job'[u].state = "failed" /\ job'[u].stage = job[u].stage]_vars

\* one job is back in the queue at asr after its last allowed retry, the other
\* has failed
C18_Witness ==
  \E u1, u2 \in Uploads :
    /\ job[u1].state = "queued" /\ job[u1].stage = "asr"
    /\ job[u1].retryCount = MaxRetries
    /\ job[u2].state = "failed" /\ job[u2].retryCount = MaxRetries

\* C19 as stated: the jobs that fail at the asr stage have all had the same
\* number of handler failures at that stage, whatever happened at transcode.
FailedAtAsr(u) == rjob["a"][u].state = "failed" /\ rjob["a"][u].stage = "asr"
C19_SameAsrBudget ==
  \A u1, u2 \in Uploads :
    (FailedAtAsr(u1) /\ FailedAtAsr(u2)) => rfails[u1]["asr"] = rfails[u2]["asr"]

\* C13 as stated: an invocation of the listener for a web URL, started by
\* anything but 'Proceed anyway', with the user logged in and auto-scan on,
\* goes on to redirect the tab to the blocked page when the memory cache holds
\* a phishing result for the base domain, and when the backend returns one.
CachedPhishing(url) ==
  urlCache[getBaseDomain(url)] # <<>> /\ urlCache[getBaseDomain(url)][1].isPhishing
Blocks(h) == hpc'[h] = "update" /\ hpage'[h] = "blocked.html"
C13_PhishingAlwaysBlocked ==
  [][\A h \in Handlers :
       (hpc'[h] # hpc[h] /\ IsWeb(hurl[h]) /\ hvia[h] # "proceed") =>
         /\ (hpc[h] = "autoScan" /\ autoScan /\ CachedPhishing(hurl[h])) => Blocks(h)
         /\ (hpc[h] = "fetch" /\ hpc'[h] # "update") => ~DbResponse(h).isPhishing
         /\ (hpc[h] = "fetch" /\ hpage'[h] = "scanning.html") =>
              ~DbResponse(h).isPhishing]_vars

\* C14 as stated: an invocation for a web URL ends without a verdict only
\* when the user is logged out or auto-scan is off; otherwise it has acted on
\* a cached or stored result or has sent the tab to the scanning page.
C14_EveryWebUrlIsChecked ==
  \A h \in Handlers :
    (hpc[h] \in HandlerOutcomes /\ IsWeb(hurl[h])) =>
      hpc[h] \in {"loggedOut", "disabled", "allowed", "warned", "redirected"}

\* C20 as stated: no two invocations for one tab are at the same time waiting
\* for the backend's answer or for their redirect.
InFlight(h) == hpc[h] \in {"fetch", "update"}
C20_OneInvocationPerTab ==
  \A h1, h2 \in Handlers :
    (h1 # h2 /\ htab[h1] = htab[h2]) => ~(InFlight(h1) /\ InFlight(h2))

\* ------------------------------------------------------------------ C15
\* two URLs of one site: the same scheme and the same host, ignoring case
\* and a leading 'www.'
HostOf(url) ==
  LET low == [i \in 1..Len(url.host) |-> toLowerCase(url.host[i])]
  IN IF Len(low) > 1 /\ low[1] = "www" THEN SubSeq(low, 2, Len(low)) ELSE low
SameSite(u1, u2) == u1.scheme = u2.scheme /\ HostOf(u1) = HostOf(u2)

\* request p's AI result has just been stored: what a lookup for any URL of
\* the same site finds from now on
StoreServesTheSite ==
  \A p \in Requests :
    (qpc[p] \in {"upsert", "write"} /\ qpc'[p] = "done"
       /\ qres'[p] = FreshResponse(qai[p]))
    => \A u \in RequestUrls :
         SameSite(u, qurl[p])
         => /\ findUnique(urlChecks', ServedKey(u)) # <<>>
            /\ findUnique(urlChecks', ServedKey(u))[1].isPhishing = qai[p].isPhishing
            /\ findUnique(urlChecks', ServedKey(u))[1].hasWarning = qai[p].hasWarning
\* a stored result is never removed
StoredStays ==
  \A u \in RequestUrls :
    findUnique(urlChecks, ServedKey(u)) # <<>> => findUnique(urlChecks', ServedKey(u)) # <<>>
\* a request sent without forceRefresh whose lookup finds the stored result
\* (the query has not thrown)
HitIsServedFromCache ==
  \A q \in Requests :
    (qpc[q] = "lookup" /\ qpc'[q] # "lookup" /\ ~qres'[q].error
       /\ findUnique(urlChecks, ServedKey(qurl[q])) # <<>>)
    => /\ qpc'[q] = "done"
       /\ qres'[q].status = 200 /\ qres'[q].cached
       /\ qres'[q].isPhishing = findUnique(urlChecks, ServedKey(qurl[q]))[1].isPhishing
       /\ qres'[q].hasWarning = findUnique(urlChecks, ServedKey(qurl[q]))[1].hasWarning
       /\ ~qcalled'[q]
       /\ urlChecks' = urlChecks
\* only a request with forceRefresh, or one that missed, reaches the AI
NoAiWithoutMiss ==
  \A q \in Requests :
    (qpc[q] # "ai" /\ qpc'[q] = "ai")
    => qforce'[q] \/ findUnique(urlChecks, ServedKey(qurl'[q])) = <<>>

\* C15: once a request has called the AI and stored the result, a request
\* without forceRefresh for any URL of the same scheme and host (ignoring case
\* and a leading 'www.') is answered cached=true with the stored isPhishing
\* and hasWarning, without an AI call and without a write to url_checks.
C15_StoredResultIsServedFromCache ==
  [][StoreServesTheSite /\ StoredStays /\ HitIsServedFromCache /\ NoAiWithoutMiss]_vars

\* one request has stored a phishing verdict for https://WWW.Evil.test/login,
\* another one for https://evil.test/blocked.html is answered from the cache
C15_Witness ==
  \E p, q \in Requests :
    /\ qpc[p] = "done" /\ qcalled[p] /\ qurl[p] = EvilLogin
    /\ qres[p] = FreshResponse(Phishing)
    /\ qpc[q] = "done" /\ ~qcalled[q] /\ qurl[q] = EvilBlocked /\ ~qforce[q]
    /\ qres[q] = CachedResponse(UrlCheckRow(ServedKey(EvilLogin), Phishing))

\* ------------------------------------------------------------------ C16
\* C16: in every reachable state of the database, url_checks has at most one
\* row per normalized URL, whatever requests ran, concurrent misses included.
C16_OneRowPerUrl ==
  \A i, j \in 1..Len(urlChecks) : urlChecks[i].url = urlChecks[j].url => i = j

\* two requests for one base domain both missed the cache, both called the AI
\* and both stored a result: one row
C16_Witness ==
  \E p, q \in Requests :
    /\ p # q /\ ServedKey(qurl[p]) = ServedKey(qurl[q])
    /\ qpc[p] = "done" /\ qcalled[p] /\ ~qforce[p] /\ qres[p] = FreshResponse(qai[p])
    /\ qpc[q] = "done" /\ qcalled[q] /\ ~qforce[q] /\ qres[q] = FreshResponse(qai[q])
    /\ Len(RowsOf(urlChecks, ServedKey(qurl[p]))) = 1

\* ------------------------------------------------------------------ C17
\* what the request carries: a token that verifies, of a user whose row exists
TokenValid(header) == header # NoHeader /\ header[1].signed
UserExists(header) == users[header[1].userId] # "none"
IsAdmin(header) == users[header[1].userId] = "ADMIN"

\* the middleware's decision, at its user lookup
AuthDecides ==
  \A a \in AdminRequests :
    (apc[a] = "auth" /\ apc'[a] # "auth")
    => apc'[a] = (IF ~TokenValid(ahdr[a]) THEN "401"
                  ELSE IF ~UserExists(ahdr[a]) THEN "401"
                  ELSE IF ~IsAdmin(ahdr[a]) THEN "403"
                  ELSE "count")
\* a listing query runs only in a request the middleware has let through
QueriesOnlyWhenGranted ==
  \A a \in AdminRequests :
    /\ aqueries'[a] > aqueries[a] => apc[a] \in {"count", "findMany"}
    /\ (apc[a] # "count" /\ apc'[a] = "count") => apc[a] = "auth"
    /\ (apc[a] # "findMany" /\ apc'[a] = "findMany") => apc[a] = "count"
    /\ (apc[a] # "200" /\ apc'[a] = "200") => apc[a] = "findMany"
    /\ apc'[a] \in {"401", "403"} => aqueries'[a] = 0

\* C17: the admin listing endpoints return records only to a request with a
\* valid token of an existing user whose stored role is ADMIN; a missing or
\* invalid token or a deleted user gives 401, another role gives 403, and then
\* no listing query is run.
C17_ListingOnlyForAdmins == [][AuthDecides /\ QueriesOnlyWhenGranted]_vars

\* one request of the admin has its records, one of a plain user is refused
\* with 403 and has run no query
C17_Witness ==
  \E a, b \in AdminRequests :
    /\ apc[a] = "200" /\ aqueries[a] > 0
    /\ apc[b] = "403" /\ TokenValid(ahdr[b]) /\ users[ahdr[b][1].userId] = "USER"
    /\ aqueries[b] = 0

\* ------------------------------------------------------------------ C28
StateStagePairs ==
  {<<"queued", "transcode">>, <<"processing", "transcode">>, <<"queued", "asr">>,
   <<"processing", "asr">>, <<"done", "asr_completed">>}
\* the pairs of the table (the half of C28 that holds)
PairsOfTheTable ==
  \A u \in Uploads :
    rows[u] > 0 =>
      /\ job[u].state = "failed" \/ <<job[u].state, job[u].stage>> \in StateStagePairs
      /\ job[u].stage = "asr_completed" => job[u].state = "done"

\* C28 as stated: every job's (state, stage) is a pair of the table or the
\* job is failed, asr_completed comes with done only, and the handler that
\* runs on a claimed job is the handler of the job's stage.
C28_StageHandlerOnly ==
  /\ PairsOfTheTable
  /\ \A u \in Uploads, w \in Workers : Holds(w, u) => wstage[w] = job[u].stage

\* ------------------------------------------------------------------ C29
QueuedAtTranscode ==
  [state |-> "queued", stage |-> "transcode", retryCount |-> 0, meta |-> <<>>]

\* C29: the number of Job rows changes only in the step of finalize that
\* follows the completed multipart upload, by one row that is queued at
\* transcode with retryCount 0; a step of a worker leaves the number of rows
\* as it is.
C29_OnlyFinalizeCreatesJobs ==
  [][/\ \A u \in Uploads :
          rows'[u] # rows[u] =>
            /\ rows'[u] = rows[u] + 1
            /\ job'[u] = QueuedAtTranscode
            /\ OriginalKey(u) \in objects'
            /\ \/ OriginalKey(u) \notin objects
               \/ \E c \in Callers : fpc[c] = "insert" /\ fjob[c] = u /\ fpc'[c] = "success"
            /\ workerVars' = workerVars
     /\ (workerVars' # workerVars \/ transcripts' # transcripts) => rows' = rows]_vars

\* one job has gone through both handlers and another one has just been
\* created: one row each
C29_Witness ==
  \E u1, u2 \in Uploads :
    /\ rows[u1] = 1 /\ job[u1].state = "done"
    /\ rows[u2] = 1 /\ job[u2] = QueuedAtTranscode

\* ------------------------------------------------------------------ C22
\* C22 as stated: a request with checkOnly for a URL without a stored row
\* never gets as far as the AI call or the upsert, with forceRefresh or not.
C22_CheckOnlyNeverScans ==
  \A q \in Requests :
    (qonly[q] /\ findUnique(urlChecks, ServedKey(qurl[q])) = <<>>)
    => qpc[q] \notin {"ai", "upsert", "write"}

\* ------------------------------------------------------------------ C23
\* request q has its response and its AI check had failed
AiFailed(q) == qpc[q] = "done" /\ qcalled[q] /\ qai[q].error
\* what every response of the route looks like, failures included
FailOpenShape ==
  \A q \in Requests :
    qpc[q] = "done" =>
      /\ qres[q].status \in {200, 401}
      /\ qres[q].status = 401 => (qres[q] = UnauthorizedResponse /\ ~qcalled[q])
      /\ (qres[q].error /\ qres[q].status = 200) =>
           (~qres[q].isPhishing /\ ~qres[q].cached /\ ~qres[q].notFound)
      /\ qres[q].isPhishing =>
           (~qres[q].error /\ (qres[q].cached \/ (qcalled[q] /\ qai[q].isPhishing)))

\* C23 as stated: every failure inside the handler, a failed AI check
\* included, is answered with 200, isPhishing=false, cached=false and an
\* error field.
C23_EveryFailureHasErrorField ==
  /\ FailOpenShape
  /\ \A q \in Requests : AiFailed(q) => qres[q] = ErrorResponse

\* C23, amended: no response has an error status other than the 401 of the
\* authentication and no failure gives isPhishing=true; an exception in the
\* handler is answered with 200, isPhishing=false, cached=false and an error
\* field; a failed AI check is answered with 200, isPhishing=false and
\* cached=false, with an error field only when the write after it threw.
C23_FailsOpen ==
  /\ FailOpenShape
  /\ \A q \in Requests :
       AiFailed(q) =>
         (qres[q].status = 200 /\ ~qres[q].isPhishing /\ ~qres[q].cached
            /\ qres[q] \in {ErrorResponse, FreshResponse(UnableToVerify)})

\* one request whose AI check failed has its answer without an error field,
\* another one whose write threw has the fail-open answer
C23_Witness ==
  \E p, q \in Requests :
    /\ AiFailed(p) /\ qres[p] = FreshResponse(UnableToVerify)
    /\ qpc[q] = "done" /\ qcalled[q] /\ qai[q] = Phishing /\ qres[q] = ErrorResponse

\* ------------------------------------------------------------------ C24
\* the upsert of a request whose AI check failed has just succeeded
FailedCheckIsStored ==
  \A q \in Requests :
    (qpc[q] \in {"upsert", "write"} /\ qpc'[q] = "done" /\ ~qres'[q].error
       /\ qai[q].error)
    => /\ RowsOf(urlChecks', ServedKey(qurl[q]))
            = <<UrlCheckRow(ServedKey(qurl[q]), Safe)>>
       /\ qres'[q].status = 200 /\ ~qres'[q].isPhishing /\ ~qres'[q].cached

\* C24: a request whose AI check failed or gave no final answer upserts a
\* row with isPhishing=false under the base domain, in the place of the row
\* that was there (a phishing verdict too, with forceRefresh), and a later
\* request without forceRefresh is answered from that row, cached=true,
\* without an AI call.
C24_FailedCheckIsStoredAsSafe ==
  [][FailedCheckIsStored /\ HitIsServedFromCache /\ NoAiWithoutMiss]_vars

\* a forceRefresh request whose AI check failed has stored its row, and a
\* request without forceRefresh has been answered from it
C24_Witness ==
  \E p, q \in Requests :
    /\ AiFailed(p) /\ qforce[p] /\ qres[p] = FreshResponse(UnableToVerify)
    /\ qpc[q] = "done" /\ ~qforce[q] /\ ~qcalled[q]
    /\ qres[q] = CachedResponse(UrlCheckRow(ServedKey(qurl[p]), Safe))

\* ------------------------------------------------------------------ C21
\* C21 as stated: no redirect loop. The navigation by which the scanning
\* page sends the tab back to the URL it has checked is not redirected to the
\* scanning page again.
RedirectsToScanning(h) == hpc[h] = "update" /\ hpage[h] = "scanning.html"
C21_NoSecondRedirect ==
  \A h \in Handlers : hvia[h] = "scan" => ~RedirectsToScanning(h)


\* ------------------------------------------------------------------ C25
\* the scanning page hands its result over: it stops on the authentication
\* message (no token), it finds the token rejected, or it goes on to the
\* blocked page
HandsOverFailOpen(t) ==
  /\ OnScanningPage(t)
  /\ \/ scan'[t] = "authRequired"
     \/ token /\ ~token' /\ scan'[t] = "none"
HandsOverPhishing(t) ==
  /\ OnScanningPage(t)
  /\ IsInternal(tabUrl'[t]) /\ tabUrl'[t].path = "blocked.html"
  /\ hpc' = hpc
ResultIsStored ==
  \A t \in Tabs :
    /\ HandsOverFailOpen(t) => urlCache'[getBaseDomain(ScanTarget(t))] = <<FailOpen>>
    /\ HandsOverPhishing(t) =>
         /\ urlCache'[getBaseDomain(ScanTarget(t))] # <<>>
         /\ urlCache'[getBaseDomain(ScanTarget(t))][1].isPhishing
\* a stored fail-open result changes only when the entry is cleared, when a
\* scanning page hands over another result for the base domain, or when an
\* invocation that had missed the cache before stores the backend's row
FailOpenStays ==
  \A d \in BaseDomains :
    (urlCache[d] = <<FailOpen>> /\ urlCache'[d] # urlCache[d]) =>
      \/ urlCache'[d] = <<>>
      \/ \E t \in Tabs : OnScanningPage(t) /\ getBaseDomain(ScanTarget(t)) = d
                          /\ scan'[t] # "checking"
      \/ \E h \in Handlers : hpc[h] = "fetch" /\ hpc'[h] # "fetch"
                              /\ getBaseDomain(hurl[h]) = d
\* an invocation that comes to its checks while the fail-open result is
\* stored ends there: no request to the backend, no redirect
FailOpenAllows ==
  \A h \in Handlers :
    (hpc[h] = "autoScan" /\ hpc'[h] # hpc[h] /\ IsWeb(hurl[h])
       /\ urlCache[getBaseDomain(hurl[h])] = <<FailOpen>>) =>
      /\ hpc'[h] \in HandlerOutcomes \ {"redirected", "warned"}
      /\ (autoScan /\ ~IsOwnPage(hurl[h]) /\ htab[h] \notin processingTabs
            /\ redirectedTabs[htab[h]] # <<hurl[h]>>) => hpc'[h] = "allowed"

RecordsWarning(t) ==
  \E h \in Handlers :
    /\ htab[h] = t /\ hpc[h] \in {"blockWarnings", "fetch"} /\ hpc'[h] = "warned"
    /\ tabWarnings'[t] = <<WarningInfo(hurl[h])>>
\* what the content script of the page in the tab is answered on page load
BannerOf(t) == getWarningForTab(t, t)

Outcome(t) ==
  \/ scan[t] = "authRequired"
  \/ /\ scan[t] = "none"
     /\ \/ IsWeb(tabUrl[t])
        \/ IsInternal(tabUrl[t]) /\ tabUrl[t].path \in {"blocked.html", "warning.html"}

\* C30: the scanning page never waits forever: whatever the backend check
\* does (a verdict, an error, no answer at all), the tab eventually is on the
\* blocked page, the warning page or a web page, or the scanning page has
\* stopped on its authentication-required message.
C30_ScanningPageEnds ==
  \A t \in Tabs : OnScanningPage(t) ~> Outcome(t)

\* no answer at all: the page has sent the tab on to the target with nothing
\* cached and nothing stored
C30_Witness ==
  \E t \in Tabs :
    /\ via[t] = "scan" /\ tabUrl[t] = EvilLogin
    /\ urlCache[getBaseDomain(EvilLogin)] = <<>>
    /\ urlChecks = <<>>


\* ------------------------------------------------------------------ C26
\* a call of shouldBlockUrl that has marked its URL pending and has not come
\* to its finally yet; its request to the backend is under way
Checking(m) == mpc[m] \in {"token", "fetch"}
RequestInFlight(m) == mpc[m] = "fetch"
OneCheckPerUrl ==
  \A m1, m2 \in Messages : (m1 # m2 /\ Checking(m1) /\ Checking(m2)) => murl[m1] # murl[m2]
PendingAreTheChecks == pendingChecks = {murl[m] : m \in {m2 \in Messages : Checking(m2)}}
\* a call for a URL whose check is pending is answered null at once
SecondCallIsNull ==
  \A m \in Messages :
    (mpc[m] = "idle" /\ mpc'[m] # "idle" /\ murl'[m] \in pendingChecks) =>
      /\ mpc'[m] = "done"
      /\ mres'[m] = <<>> \/ mres'[m] = urlCache[murl'[m]]
      /\ urlCache[murl'[m]] = <<>> => mres'[m] = <<>>
      /\ pendingChecks' = pendingChecks

\* C26: through the 'checkUrl' message at most one backend request per
\* normalized URL is under way; a call for a URL in pendingChecks returns
\* null without a request; pendingChecks holds exactly the URLs being
\* checked, so it is empty once every call is over, failed requests included.
C26_OneRequestPerNormalizedUrl ==
  /\ [](OneCheckPerUrl /\ PendingAreTheChecks)
  /\ [][SecondCallIsNull]_vars

\* two spellings of one page: the first call's request has failed and is
\* over, the second call was answered null meanwhile, nothing is pending
C26_Witness ==
  \E m1, m2 \in Messages :
    /\ m1 # m2 /\ murl[m1] = murl[m2]
    /\ mpc[m1] = "done" /\ mres[m1] = <<FailOpen>>
    /\ mpc[m2] = "done" /\ mres[m2] = <<>>
    /\ pendingChecks = {}


\* ------------------------------------------------------------------ C31
\* the call returns without an answer of the model in the same step (the
\* loop has run out) or without a message of the model added (a step has
\* failed): the result is not phishing
ReturnsWithoutAnswer ==
  /\ lpc = "loop" /\ lpc' = "returned"
  /\ invocations' = invocations \/ messages' = messages
NoAnswerIsNotPhishing == ReturnsWithoutAnswer => ~lresult'[1].isPhishing

\* C31: checkPhishingUrlWithLangChain never throws and always returns a
\* result; it invokes the model at most 5 times per call, whatever mix of
\* tool calls and empty answers the model gives, and its result has
\* isPhishing false when the loop runs out or a step fails.
C31_AlwaysReturnsWithinFiveCalls ==
  /\ [](lpc # "thrown" /\ invocations <= 5 /\ (lpc = "returned" => lresult # <<>>))
  /\ [][NoAnswerIsNotPhishing]_vars
  /\ (lpc = "loop") ~> (lpc = "returned")

\* five rounds of tool calls, then the default result
C31_Witness ==
  /\ lpc = "returned" /\ invocations = 5 /\ toolUsed
  /\ lresult = <<UnableToVerify>>


\* ------------------------------------------------------------------ C32
\* the scanning page started by 'Scan again' has come to its end: it stops
\* on its message or sends the tab on
ScanAgainEnds(t) ==
  /\ OnScanningPage(t) /\ ForceRefresh(t)
  /\ \/ scan'[t] = "authRequired"
     \/ scan'[t] = "none" /\ via'[t] = "scan"
     \/ scan'[t] = "none" /\ OnVerdictPage(t)' /\ hpc' = hpc
StoredRow(table, url) == findUnique(table, ServedKey(url))
\* the stored row and the memory cache hold one result, the AI's
HoldNewResult(t) ==
  LET bd == getBaseDomain(ScanTarget(t))
  IN /\ urlCache'[bd] # <<>> /\ ~urlCache'[bd][1].error
     /\ StoredRow(urlChecks', bd) # <<>>
     /\ StoredRow(urlChecks', bd)[1].isPhishing = urlCache'[bd][1].isPhishing
     /\ StoredRow(urlChecks', bd)[1].hasWarning = urlCache'[bd][1].hasWarning

\* C32 as stated: after 'Scan again' the decision for the URL is taken from a
\* new AI call: when the scanning page it starts has come to its end, the
\* stored row and the memory cache both hold the new result.
C32_ScanAgainTakesNewResult ==
  [][\A t \in Tabs : ScanAgainEnds(t) => HoldNewResult(t)]_vars


\* C33: a stage handler that runs again after a failed attempt writes the keys
\* the earlier attempt wrote: every object a handler adds is one of the keys
\* derived from the job id and the stage of the attempt, whatever the number of
\* failures so far, so the objects under a job's prefix are never more than the
\* source object and the derived artifacts of its two stages.
DerivedKeys(u) == StageKeys("transcode", u) \cup StageKeys("asr", u)
Written(u) == {k \in objects : k[2] = u} \ {OriginalKey(u)}
AttemptKeys ==
  UNION {StageKeys(wstage[w], wjob[w]) : w \in {x \in Workers : wpc[x] = "work"}}
C33_RetriesWriteTheSameKeys ==
  /\ [](\A u \in Uploads : Written(u) \subseteq DerivedKeys(u))
  /\ [][(objects' \ objects) \subseteq
          (AttemptKeys \cup {OriginalKey(u) : u \in Uploads})]_vars

\* a job is done after two failed attempts: its prefix holds the three derived
\* artifacts and no more
C33_Witness ==
  \E u \in Uploads :
    /\ fails[u] >= 2
    /\ job[u].state = "done"
    /\ Written(u) = DerivedKeys(u)

\* C34: whenever a job is at stage asr, queued or processing, its meta holds
\* the key of the audio artifact that the successful transcode attempt wrote,
\* and an object is stored under that key.
AtAsr(u) == job[u].stage = "asr" /\ job[u].state \in {"queued", "processing"}
C34_AsrJobHasItsAudio ==
  \A u \in Uploads :
    AtAsr(u) => job[u].meta = AudioKey(u) /\ headObject(job[u].meta)

\* a job is being processed at asr again after an asr attempt has failed
C34_Witness ==
  \E u \in Uploads, w \in Workers :
    /\ AtAsr(u) /\ job[u].state = "processing"
    /\ Holds(w, u) /\ wstage[w] = "asr"
    /\ job[u].retryCount >= 1
    /\ job[u].meta = AudioKey(u)

\* C35: findUploadId(key) returns the id of an in-flight upload whose key is
\* exactly the key, if there is one, and no id when every upload listed under
\* the prefix has another, longer key; a finalize request that looks the
\* session up then ends with UploadSessionNotFound.
ExactUploads(key) == {s \in sessions : s.Key = key}
OnlyLongerListed(key) ==
  ListedUploads(key) # {} /\ \A s \in ListedUploads(key) : Len(s.Key) > Len(key)
C35_FindUploadIdMatchesExactKey ==
  /\ [](\A u \in Uploads :
         /\ ExactUploads(OriginalKey(u)) # {} =>
              findUploadId(OriginalKey(u)) \in
                {s.UploadId : s \in ExactUploads(OriginalKey(u))}
         /\ ExactUploads(OriginalKey(u)) = {} =>
              findUploadId(OriginalKey(u)) = NoUpload)
  /\ [][\A c \in Callers :
         (fpc[c] = "find" /\ fpc'[c] # "find") =>
           (fpc'[c] = "UploadSessionNotFound"
              <=> ExactUploads(OriginalKey(fjob[c])) = {})]_vars

\* one key has only a longer key listed under it and a request for it has
\* ended with UploadSessionNotFound; the other has its own upload and a longer
\* one in flight, and the lookup gives its own
C35_Witness ==
  \E c \in Callers, u, v \in Uploads :
    /\ OnlyLongerListed(OriginalKey(u))
    /\ fjob[c] = u /\ fpc[c] = "UploadSessionNotFound"
    /\ Cardinality(ListedUploads(OriginalKey(v))) = 2
    /\ findUploadId(OriginalKey(v)) = v
====
